---- MODULE Spec2Model ----
(***************************************************************************)
(* Model of the TruthSpotter claim-verification back end.                  *)
(*                                                                         *)
(*   rag-verify/src/agent-orchestrator.ts  AgentOrchestrator               *)
(*   detector.ts (MisinformationDetector)  the linear pipeline             *)
(*   rag-verify/src/index.ts               the HTTP entry points           *)
(*   rag-verify/src/google-generative-ai.d.ts  AgenticRAGVerifier          *)
(*                                                                         *)
(* JavaScript runs one macrotask at a time and drains the microtask queue  *)
(* before the next one.  An action of this model is one macrotask: the     *)
(* arrival of a collaborator's answer (or the firing of a timer, or a new  *)
(* call) together with every continuation that then runs until each       *)
(* control flow is parked on a collaborator call that is still pending.    *)
(* A collaborator call that stalls is a pending call whose answer action   *)
(* is never taken.                                                         *)
(*                                                                         *)
(* Text is a sequence of one-character strings.                            *)
(***************************************************************************)
EXTENDS Integers, Sequences, FiniteSets, TLC

\* ------------------------------------------------------------------------
\* Bounds of the model
\* ------------------------------------------------------------------------
MaxCalls == 2

\* ------------------------------------------------------------------------
\* JavaScript values
\* ------------------------------------------------------------------------
\* undefined / absent property (a text is a tuple of one-character strings,
\* so this tuple is no text)
NoVal == <<"undefined">>

\* ------------------------------------------------------------------------
\* Text helpers (String.prototype.*)
\* ------------------------------------------------------------------------
WhiteSpace == {" ", "\n", "\t"}

toUpperCase(s) ==
  LET UpperOf ==
        [c \in {"a", "c", "l", "n", "o", "s", "t", "u", "y", "b", "e", "m"} |->
           CASE c = "a" -> "A" [] c = "c" -> "C" [] c = "l" -> "L" [] c = "n" -> "N"
             [] c = "o" -> "O" [] c = "s" -> "S" [] c = "t" -> "T" [] c = "u" -> "U"
             [] c = "y" -> "Y" [] c = "b" -> "B" [] c = "e" -> "E" [] c = "m" -> "M"]
  IN
    [i \in 1..Len(s) |-> IF s[i] \in DOMAIN UpperOf THEN UpperOf[s[i]] ELSE s[i]]

toLowerCase(s) ==
  LET LowerOf ==
        [c \in {"A", "C", "H", "P", "S", "T", "W", "X", "Q", "N", "U"} |->
           CASE c = "A" -> "a" [] c = "C" -> "c" [] c = "H" -> "h" [] c = "P" -> "p"
             [] c = "S" -> "s" [] c = "T" -> "t" [] c = "W" -> "w" [] c = "X" -> "x"
             [] c = "Q" -> "q" [] c = "N" -> "n" [] c = "U" -> "u"]
  IN
    [i \in 1..Len(s) |-> IF s[i] \in DOMAIN LowerOf THEN LowerOf[s[i]] ELSE s[i]]

RECURSIVE trimStart(_)
trimStart(s) ==
  IF s # <<>> /\ Head(s) \in WhiteSpace THEN trimStart(Tail(s)) ELSE s

RECURSIVE trimEnd(_)
trimEnd(s) ==
  IF s # <<>> /\ s[Len(s)] \in WhiteSpace
  THEN trimEnd(SubSeq(s, 1, Len(s) - 1)) ELSE s

trim(s) == trimEnd(trimStart(s))

startsWith(s, p) == Len(s) >= Len(p) /\ SubSeq(s, 1, Len(p)) = p

includes(s, p) ==
  \E i \in 1..(Len(s) - Len(p) + 1) : SubSeq(s, i, i + Len(p) - 1) = p

\* s.split(ch)[0]
beforeFirst(s, ch) ==
  IF \E i \in 1..Len(s) : s[i] = ch
  THEN SubSeq(s, 1, (CHOOSE i \in 1..Len(s) :
                       s[i] = ch /\ \A j \in 1..(i - 1) : s[j] # ch) - 1)
  ELSE s

\* s.split(' '): the pieces between single blanks, empty pieces included
RECURSIVE split(_, _)
split(s, ch) ==
  IF \E i \in 1..Len(s) : s[i] = ch
  THEN LET k == CHOOSE i \in 1..Len(s) :
                  s[i] = ch /\ \A j \in 1..(i - 1) : s[j] # ch
       IN  <<SubSeq(s, 1, k - 1)>> \o split(SubSeq(s, k + 1, Len(s)), ch)
  ELSE <<s>>

\* Array.prototype.slice(0, n)
slice(xs, n) == SubSeq(xs, 1, IF Len(xs) < n THEN Len(xs) ELSE n)

\* a ?? b
nullish(a, b) == IF a = NoVal THEN b ELSE a

\* !v for a value that is undefined or a text
falsy(v) == v = NoVal \/ v = <<>>

\* a || b
orElse(a, b) == IF falsy(a) THEN b ELSE a

\* Array.prototype.sort with the comparator score(b) - score(a): a stable
\* sort, highest score first.
RECURSIVE insertByScore(_, _, _)
insertByScore(sorted, x, score) ==
  IF sorted = <<>> THEN <<x>>
  ELSE IF score[Head(sorted)] >= score[x]
       THEN <<Head(sorted)>> \o insertByScore(Tail(sorted), x, score)
       ELSE <<x>> \o sorted

RECURSIVE sortDesc(_, _)
sortDesc(xs, score) ==
  IF xs = <<>> THEN <<>>
  ELSE insertByScore(sortDesc(SubSeq(xs, 1, Len(xs) - 1), score),
                     xs[Len(xs)], score)

\* ------------------------------------------------------------------------
\* Dates.  The date texts of the model are four-digit years, which
\* Date.parse accepts; the parse result is counted in years since the
\* epoch instead of milliseconds.  Any other text parses to NaN.
\* ------------------------------------------------------------------------
Digits == {"0", "1", "2", "3", "4", "5", "6", "7", "8", "9"}

DigitVal(c) ==
  CASE c = "0" -> 0 [] c = "1" -> 1 [] c = "2" -> 2 [] c = "3" -> 3
    [] c = "4" -> 4 [] c = "5" -> 5 [] c = "6" -> 6 [] c = "7" -> 7
    [] c = "8" -> 8 [] c = "9" -> 9

EpochYear == 1970

\* Date.parse of a year (YYYY) or of a day (YYYY-MM-DD): [nan |-> TRUE] for
\* NaN, else the time value, counted in days since the epoch with every
\* year taken as 365 days
DateParse(text) ==
  LET number(s) ==
        IF \A i \in 1..Len(s) : s[i] \in Digits
        THEN IF Len(s) = 4
             THEN DigitVal(s[1]) * 1000 + DigitVal(s[2]) * 100
                  + DigitVal(s[3]) * 10 + DigitVal(s[4])
             ELSE DigitVal(s[1]) * 10 + DigitVal(s[2])
        ELSE -1
      daysBefore == <<0, 31, 59, 90, 120, 151, 181, 212, 243, 273, 304, 334>>
      year == number(SubSeq(text, 1, 4))
      month == number(SubSeq(text, 6, 7))
      day == number(SubSeq(text, 9, 10))
  IN  IF Len(text) = 4 /\ year >= 0
      THEN [nan |-> FALSE, ms |-> (year - EpochYear) * 365]
      ELSE IF Len(text) = 10 /\ text[5] = "-" /\ text[8] = "-" /\ year >= 0
              /\ month \in 1..12 /\ day \in 1..31
      THEN [nan |-> FALSE,
            ms |-> (year - EpochYear) * 365 + daysBefore[month] + day - 1]
      ELSE [nan |-> TRUE, ms |-> 0]

getRecencyScore(value) ==
  LET score(parsed) == IF parsed.nan THEN 0 ELSE parsed.ms
  IN  IF falsy(value) THEN 0 ELSE score(DateParse(value))

\* ------------------------------------------------------------------------
\* Evidence mapping (AgentOrchestrator)
\* ------------------------------------------------------------------------
HTTP == <<"h", "t", "t", "p", ":", "/", "/">>
HTTPS == <<"h", "t", "t", "p", "s", ":", "/", "/">>
UnknownText == <<"U", "n", "k", "n", "o", "w", "n">>
UntitledSource == <<"U", "n", "t", "i", "t", "l", "e", "d", " ",
                    "s", "o", "u", "r", "c", "e">>
Ellipsis == <<".", ".", ".">>
SnippetLen == 150
MaxEvidence == 5

dropPrefix(s, p) == IF startsWith(s, p) THEN SubSeq(s, Len(p) + 1, Len(s)) ELSE s

normalizeUrl(url) ==
  LET \* replace(/^https?:\/\//, '')
      withoutScheme(u) == IF startsWith(u, HTTPS) THEN dropPrefix(u, HTTPS)
                          ELSE dropPrefix(u, HTTP)
      \* replace(/\/$/, '')
      withoutTrailing(u) == IF u # <<>> /\ u[Len(u)] = "/"
                            THEN SubSeq(u, 1, Len(u) - 1) ELSE u
      \* clean || null
      orNull(clean) == IF clean = <<>> THEN NoVal ELSE clean
  IN  IF falsy(url) THEN NoVal
      ELSE orNull(beforeFirst(beforeFirst(
             withoutTrailing(dropPrefix(withoutScheme(trim(toLowerCase(url))), <<"w", "w",
                   "w", ".">>)),
             "?"), "#"))

\* replace(/\s+/g, ' ')
RECURSIVE collapseSpaces(_)
collapseSpaces(s) ==
  IF s = <<>> THEN <<>>
  ELSE IF Head(s) \in WhiteSpace
       THEN <<" ">> \o collapseSpaces(trimStart(s))
       ELSE <<Head(s)>> \o collapseSpaces(Tail(s))

normalizeText(text) == trim(collapseSpaces(trim(toLowerCase(text))))

extractLink(doc) == orElse(doc.link, orElse(doc.url, orElse(doc.href, NoVal)))

isValidLink(link) ==
  LET valid(trimmed) ==
        Len(trimmed) > 0 /\ (startsWith(trimmed, HTTP) \/ startsWith(trimmed, HTTPS))
  IN  IF falsy(link) THEN FALSE ELSE valid(trim(link))

docKey(doc) ==
  orElse(normalizeUrl(extractLink(doc)),
         normalizeText(nullish(doc.title, nullish(doc.source, <<>>)))
         \o <<"|">> \o normalizeText(nullish(doc.source, UnknownText)))

articleKey(article) ==
  orElse(normalizeUrl(article.link),
         normalizeText(article.title) \o <<"|">> \o normalizeText(article.source))

\* first-seen-wins deduplication by key
RECURSIVE dedupe(_, _, _)
dedupe(xs, key, seen) ==
  IF xs = <<>> THEN <<>>
  ELSE IF key[Head(xs)] \in seen
       THEN dedupe(Tail(xs), key, seen)
       ELSE <<Head(xs)>> \o dedupe(Tail(xs), key, seen \cup {key[Head(xs)]})

Range(xs) == {xs[i] : i \in 1..Len(xs)}

docToArticle(doc) ==
  [title   |-> nullish(doc.title, nullish(doc.source, UntitledSource)),
   snippet |-> slice(orElse(doc.pageContent, <<>>), SnippetLen) \o Ellipsis,
   link    |-> extractLink(doc),
   date    |-> nullish(doc.date, <<"U", "n", "k", "n", "o", "w", "n", " ", "d", "a", "t", "e">>),
   source  |-> nullish(doc.source, UnknownText)]

docRecency(doc) == getRecencyScore(nullish(doc.date, doc.published_at))

mapEvidenceToNewsArticles(docs) ==
  LET uniqueDocs(ds) == dedupe(ds, [d \in Range(ds) |-> docKey(d)], {})
      sortedDocs(ds) == sortDesc(ds, [d \in Range(ds) |-> docRecency(d)])
      mapped(ds) == [i \in 1..Len(ds) |-> docToArticle(ds[i])]
      unique(as) == dedupe(as, [a \in Range(as) |-> articleKey(a)], {})
      sorted(as) == sortDesc(as, [a \in Range(as) |-> getRecencyScore(a.date)])
      withLinks(as) == SelectSeq(as, LAMBDA a : isValidLink(a.link))
  IN  slice(withLinks(sorted(unique(mapped(sortedDocs(uniqueDocs(docs)))))),
            MaxEvidence)

\* ------------------------------------------------------------------------
\* Values parsed from a model's JSON answer, tagged with their typeof
\* ------------------------------------------------------------------------
JUndef == [t |-> "undefined", b |-> FALSE, n |-> 0, s |-> <<>>, a |-> <<>>]
JBool(x) == [t |-> "boolean", b |-> x, n |-> 0, s |-> <<>>, a |-> <<>>]
JNum(x) == [t |-> "number", b |-> FALSE, n |-> x, s |-> <<>>, a |-> <<>>]
JStr(x) == [t |-> "string", b |-> FALSE, n |-> 0, s |-> x, a |-> <<>>]
JArr(x) == [t |-> "array", b |-> FALSE, n |-> 0, s |-> <<>>, a |-> x]

truthy(j) ==
  CASE j.t = "undefined" -> FALSE
    [] j.t = "boolean" -> j.b
    [] j.t = "number" -> j.n # 0
    [] j.t = "string" -> j.s # <<>>
    [] j.t = "array" -> TRUE

\* a || b on tagged values
jsOr(a, b) == IF truthy(a) THEN a ELSE b

\* ------------------------------------------------------------------------
\* Inputs: the claims, and what the collaborators may answer
\* ------------------------------------------------------------------------
\* the texts the inputs are made of
Texts ==
  [rain |-> <<"r", "a", "i", "n">>,
   fell |-> <<"f", "e", "l", "l">>,
   flood |-> <<"f", "l", "o", "o", "d">>,
   rainFell |-> <<"r", "a", "i", "n", " ", "f", "e", "l", "l">>,
   hi |-> <<"h", "i">>,
   casualLower |-> <<" ", "c", "a", "s", "u", "a", "l", "\n">>,
   verification |-> <<"V", "E", "R", "I", "F", "I", "C", "A", "T", "I", "O", "N",
                      "_", "R", "E", "Q", "U", "I", "R", "E", "D">>,
   notCasual |-> <<"N", "o", "t", " ", "c", "a", "s", "u", "a", "l">>,
   bothLabels |-> <<"C", "A", "S", "U", "A", "L", " ",
                    "V", "E", "R", "I", "F", "I", "C", "A", "T", "I", "O", "N",
                    "_", "R", "E", "Q", "U", "I", "R", "E", "D">>,
   maybe |-> <<"m", "a", "y", "b", "e">>,
   date2025 |-> <<"2", "0", "2", "5">>,
   date2024 |-> <<"2", "0", "2", "4">>,
   linkP |-> HTTPS \o <<"x", "/", "p">>,
   linkPSlash |-> HTTPS \o <<"X", "/", "p", "/">>,
   linkPQuery |-> HTTPS \o <<"x", "/", "p", "/", "?", "q", "=", "1">>,
   linkFtp |-> <<"f", "t", "p", ":", "/", "/", "x">>]

Claims(h) == IF h = "watcher" THEN {Texts.rainFell} ELSE {Texts.rainFell, Texts.hi}

CASUAL == <<"C", "A", "S", "U", "A", "L">>

\* an answer of generateContent: the call throws, or it yields a text
Throws == [kind |-> "throw"]
Text(t) == [kind |-> "text", text |-> t]

\* An answer to a JSON prompt is described by what the two helpers look at:
\* whether the text is non-empty and contains "{" (safeGenerate) and the
\* value extractJsonFromResponse gets out of it (NoJson: every tier fails).
NoJson == [t |-> "none"]
JsonText(brace, json) == [kind |-> "text", brace |-> brace, json |-> json]

\* objects the analysis prompt may be answered with
Analyses ==
  [full |->
     [extractedClaims |-> JArr(<<Texts.rain, Texts.fell>>),
      keywords |-> JArr(<<Texts.rain, Texts.flood, Texts.fell>>),
      context |-> JStr(<<"weather">>)],
   emptyObject |->
     [extractedClaims |-> JUndef, keywords |-> JUndef, context |-> JUndef],
   keywordsNumber |->
     [extractedClaims |-> JArr(<<Texts.rain>>), keywords |-> JNum(7),
      context |-> JUndef],
   claimsString |->
     [extractedClaims |-> JStr(Texts.rain), keywords |-> JArr(<<>>),
      context |-> JUndef],
   oneKeyword |->
     [extractedClaims |-> JArr(<<Texts.rain>>), keywords |-> JArr(<<Texts.rain>>),
      context |-> JUndef]]

AnalysisAnswers(h) ==
  IF h = "watcher" THEN {JsonText(TRUE, Analyses.oneKeyword)}
  ELSE {Throws, JsonText(FALSE, NoJson), JsonText(TRUE, NoJson),
        JsonText(TRUE, Analyses.full), JsonText(TRUE, Analyses.emptyObject),
        JsonText(TRUE, Analyses.keywordsNumber),
        JsonText(TRUE, Analyses.claimsString)}

\* objects the fact-check prompt may be answered with
Verdicts ==
  [supported |->
     [isVerified |-> JBool(TRUE), confidence |-> JNum(85),
      riskLevel |-> JStr(<<"LOW">>), analysis |-> JStr(<<"reasoning">>),
      factCheckSummary |-> JStr(<<"summary">>)],
   emptyObject |->
     [isVerified |-> JUndef, confidence |-> JUndef, riskLevel |-> JUndef,
      analysis |-> JUndef, factCheckSummary |-> JUndef],
   odd |->
     [isVerified |-> JStr(<<"yes">>), confidence |-> JNum(150),
      riskLevel |-> JStr(<<"CRITICAL">>), analysis |-> JUndef,
      factCheckSummary |-> JUndef]]

FactcheckAnswers(h) ==
  IF h = "watcher" THEN {JsonText(TRUE, Verdicts.supported)}
  ELSE {Throws, JsonText(FALSE, NoJson), JsonText(TRUE, NoJson),
        JsonText(TRUE, Verdicts.supported), JsonText(TRUE, Verdicts.emptyObject),
        JsonText(TRUE, Verdicts.odd)}

Articles ==
  LET Article(title, link, date) ==
        [title |-> title, snippet |-> <<"s">>, link |-> link, date |-> date,
         source |-> <<"n">>]
  IN
    [old |-> Article(<<"a">>, Texts.linkP, Texts.date2024),
     new |-> Article(<<"b">>, Texts.linkFtp, Texts.date2025)]

\* getJson: it throws, or it yields news_results (possibly absent)
SearchAnswers(h) ==
  IF h = "watcher"
  THEN {[kind |-> "nothing"], [kind |-> "results", news |-> <<Articles.old>>]}
  ELSE {Throws, [kind |-> "nothing"],
        [kind |-> "results", news |-> <<Articles.old>>],
        [kind |-> "results", news |-> <<Articles.old, Articles.new, Articles.old>>]}

\* documents of the similarity store
Doc(title, source, link, url, date, published) ==
  [title |-> title, source |-> source, link |-> link, url |-> url,
   href |-> NoVal, date |-> date, published_at |-> published,
   pageContent |-> <<"t", "e", "x", "t">>]

Docs ==
  [p |-> Doc(<<"a">>, <<"n">>, Texts.linkP, NoVal, Texts.date2024, NoVal),
   pSlash |-> Doc(<<"b">>, <<"n">>, NoVal, Texts.linkPSlash, Texts.date2025, NoVal),
   pQuery |-> Doc(<<"d">>, <<"n">>, Texts.linkPQuery, NoVal, Texts.date2025, NoVal),
   \* another chunk of the article of p, stored from a later search
   pChunk |-> [Doc(<<"a">>, <<"n">>, Texts.linkP, NoVal, Texts.date2025, NoVal)
                 EXCEPT !.pageContent = <<"m", "o", "r", "e">>],
   noLink |-> Doc(<<"c">>, NoVal, NoVal, NoVal, NoVal, Texts.date2025),
   ftp |-> Doc(NoVal, <<"n">>, Texts.linkFtp, NoVal, NoVal, NoVal)]

\* similaritySearch: it throws, or it yields documents: none, one, or ten
\* of which six are articles of their own with a link
RetrieveAnswers(h) ==
  LET numbered(n, date) ==
        Doc(<<n>>, <<"n">>, HTTPS \o <<"x", "/", n>>, NoVal, date, NoVal)
      others == <<numbered("1", Texts.date2025), numbered("2", Texts.date2025),
                  \* the third mentions the claim's rain
                  [numbered("3", NoVal) EXCEPT !.pageContent = Texts.rain],
                  numbered("4", NoVal)>>
  IN  IF h = "watcher"
      THEN {[kind |-> "docs", docs |-> <<>>], [kind |-> "docs", docs |-> <<Docs.p>>]}
      ELSE {Throws, [kind |-> "docs", docs |-> <<>>],
            [kind |-> "docs", docs |-> <<Docs.p>>],
            [kind |-> "docs",
             docs |-> <<Docs.noLink, Docs.pChunk, Docs.p, Docs.pSlash, Docs.ftp,
                        Docs.pQuery>> \o others]}

StoreAnswers == {Throws, [kind |-> "ok"]}

\* ------------------------------------------------------------------------
\* State
\* ------------------------------------------------------------------------
Calls == 1..MaxCalls

VARIABLES
  host,             \* who runs the pipeline: "watcher" (RumorWatcher keeps one
                    \* orchestrator for all its calls), "stream" (the
                    \* /verify-stream handler makes an orchestrator per
                    \* request), "verify-claim" (POST /verify-claim calls
                    \* detector.verifyClaim) or "verifier" (a caller of
                    \* AgenticRAGVerifier.verifyClaimAgentic)
  genAI,            \* detector.genAI is there (TRUE) or undefined
  userName,         \* this.context?.userName
  isRunning,        \* AgentOrchestrator.isRunning
  agentInsights,    \* AgentOrchestrator.agentInsights: a reference to an object
  insightsObjects,  \* the agentInsights objects, by reference
  searchQueries,    \* AgentOrchestrator.searchQueries
  evidenceDocs,     \* AgentOrchestrator.evidenceDocs
  status,           \* per call of verifyClaimAgentic: idle, active, returned, rejected
  result,           \* per call: the value the call resolved with
  error,            \* per call: the message of the error the call rejected
                    \* with or caught
  claim,            \* per call: the claim argument
  pc,               \* per run: the collaborator call it is parked on
  timeout,          \* per call: the setTimeout of timeoutPromise
  attempt,          \* per run: loop index i of safeGenerate
  queryType,        \* per run: what routeQuery returned
  classification,   \* per run: the answer the classifier model gave
  analysis,         \* per run: const analysis of runVerification
  searches,         \* per run: articlePromises, pending or settled
  steps,            \* per run: the messages passed to step(), in order
  stageLog,         \* per run: stages begun and ended, in order
  retrieved,        \* per run: what findRelevantEvidence gave this run
  lateWrites,       \* per run: what the run wrote after its call had returned
  stream,           \* the SSE response: open or ended, whether the consumer
                    \* has closed it (during the call or after it), and the
                    \* events written
  handled,          \* the HTTP requests the verify endpoints have taken, each
                    \* with what its handler did with the claim
  analyzing,        \* a call of detector.analyzeClaim on its own: its claim,
                    \* what the model has answered to safeGenerate so far,
                    \* the value extractJsonFromResponse gave it, the error
                    \* its catch block got and what it returned
  scoring,          \* the curation step of runEvidenceResearcher on its own:
                    \* the documents findRelevantEvidence gave, the claim's
                    \* keywords and curatedKbDocs
  watching          \* a RumorWatcher: its processedUrls, its processArticle
                    \* calls and the calls these made to its collaborators

vars == <<host, genAI, userName, isRunning, agentInsights, insightsObjects,
          searchQueries, evidenceDocs, status, result, error, claim, pc,
          timeout, attempt, queryType, classification, analysis,
          searches, steps, stageLog, retrieved, lateWrites, stream,
          handled, analyzing, scoring, watching>>

\* The mutable state as one record, so that the pieces of code that run in
\* one macrotask can be composed.
Machine ==
  [isRunning |-> isRunning, agentInsights |-> agentInsights,
   insightsObjects |-> insightsObjects, searchQueries |-> searchQueries,
   evidenceDocs |-> evidenceDocs, status |-> status, result |-> result,
   error |-> error, claim |-> claim, pc |-> pc, timeout |-> timeout,
   attempt |-> attempt, queryType |-> queryType,
   classification |-> classification, analysis |-> analysis,
   searches |-> searches, steps |-> steps, stageLog |-> stageLog,
   retrieved |-> retrieved, lateWrites |-> lateWrites, stream |-> stream]

Commit(m) ==
  /\ isRunning' = m.isRunning
  /\ agentInsights' = m.agentInsights
  /\ insightsObjects' = m.insightsObjects
  /\ searchQueries' = m.searchQueries
  /\ evidenceDocs' = m.evidenceDocs
  /\ status' = m.status
  /\ result' = m.result
  /\ error' = m.error
  /\ claim' = m.claim
  /\ pc' = m.pc
  /\ timeout' = m.timeout
  /\ attempt' = m.attempt
  /\ queryType' = m.queryType
  /\ classification' = m.classification
  /\ analysis' = m.analysis
  /\ searches' = m.searches
  /\ steps' = m.steps
  /\ stageLog' = m.stageLog
  /\ retrieved' = m.retrieved
  /\ lateWrites' = m.lateWrites
  /\ stream' = m.stream
  /\ UNCHANGED <<host, genAI, userName, handled, analyzing, scoring, watching>>

EmptyInsights ==
  [claimAnalyst |-> <<>>, evidenceResearcher |-> <<>>,
   factChecker |-> <<>>, synthesizer |-> <<>>]

None == [t |-> "none"]

Init ==
  /\ host \in {"watcher", "stream", "verify-claim", "verifier"}
  /\ genAI \in BOOLEAN
  /\ userName \in (IF host = "stream" THEN {NoVal, <<"u">>} ELSE {NoVal})
  /\ isRunning = FALSE
  /\ agentInsights = 0
  /\ insightsObjects = [o \in 0..MaxCalls |-> EmptyInsights]
  /\ searchQueries = <<>>
  /\ evidenceDocs = <<>>
  /\ status = [c \in Calls |-> "idle"]
  /\ result = [c \in Calls |-> None]
  /\ error = [c \in Calls |-> <<>>]
  /\ claim = [c \in Calls |-> <<>>]
  /\ pc = [c \in Calls |-> "idle"]
  /\ timeout = [c \in Calls |-> "unset"]
  /\ attempt = [c \in Calls |-> 0]
  /\ queryType = [c \in Calls |-> "none"]
  /\ classification = [c \in Calls |-> None]
  /\ analysis = [c \in Calls |-> None]
  /\ searches = [c \in Calls |-> <<>>]
  /\ steps = [c \in Calls |-> <<>>]
  /\ stageLog = [c \in Calls |-> <<>>]
  /\ retrieved = [c \in Calls |-> <<>>]
  /\ lateWrites = [c \in Calls |-> {}]
  /\ stream = [open |-> host = "stream", closed |-> "no", events |-> <<>>]
  /\ handled = <<>>
  /\ analyzing = [claim |-> NoVal, generated |-> <<>>, parsed |-> None,
                  thrown |-> <<>>, returned |-> None]
  /\ scoring = [docs |-> <<>>, keywords |-> <<>>, curatedKbDocs |-> <<>>]
  /\ watching = [processedUrls |-> {}, calls |-> <<>>, collaborators |-> <<>>]

\* ------------------------------------------------------------------------
\* index.ts, GET /verify-stream: the response object
\* ------------------------------------------------------------------------
\* send(event, data): res.write puts the event on the stream while the
\* response has not been ended; after res.end() nothing is written any more.
send(m, event) ==
  IF m.stream.open THEN [m EXCEPT !.stream.events = Append(@, event)] ELSE m

\* res.end() is resEnd; resEndNothing is a res.end() that does nothing, to
\* see that C9 rests on the response being ended
resEndNothing(m) == m

resEnd(m) == [m EXCEPT !.stream.open = FALSE]

\* ------------------------------------------------------------------------
\* AgentOrchestrator
\* ------------------------------------------------------------------------
timeoutMs == 120000

\* retries parameter of safeGenerate
Retries == 2

\* a write of run c to the instance after the call that started it returned
late(m, c, what) ==
  IF m.status[c] = "active" THEN m
  ELSE [m EXCEPT !.lateWrites[c] = @ \cup {what}]

\* this.step(message): console.log, then the observer callback
step(m, c, message) ==
  LET onUpdate(m1) == IF host = "stream" THEN send(m1, "step") ELSE m1
  IN  onUpdate(late([m EXCEPT !.steps[c] = Append(@, message)], c, "step"))

begin(m, c, stage) == [m EXCEPT !.stageLog[c] = Append(@, <<"begin", stage>>)]
finish(m, c, stage) == [m EXCEPT !.stageLog[c] = Append(@, <<"end", stage>>)]

\* cleanup that leaves the guard set
cleanupKeepsRunning(m) ==
  [m EXCEPT !.evidenceDocs = <<>>, !.searchQueries = <<>>]

cleanup(m) ==
  [m EXCEPT !.evidenceDocs = <<>>, !.searchQueries = <<>>, !.isRunning = FALSE]

\* the handler that awaited the call goes on: /verify-stream sends the
\* final event and ends the response
afterCall(m, c) ==
  IF host = "stream" THEN resEnd(send(m, "final")) ELSE m

\* verifyClaimAgentic resolves with r: the finally block, then the caller
returns(m, c, r) ==
  afterCall(cleanup([m EXCEPT !.status[c] = "returned", !.result[c] = r]), c)

\* the catch block of verifyClaimAgentic
fallbackResult(m, message) ==
  [isVerified |-> JBool(FALSE),
   confidence |-> JNum(0),
   riskLevel |-> JStr(<<"HIGH">>),
   factCheckSummary |-> JStr(<<"Verification failed due to an error. Please try again.">>),
   analysis |-> JStr(<<"Error: ", message>>),
   evidence |-> mapEvidenceToNewsArticles(m.evidenceDocs),
   agentInsights |-> [ref |-> m.agentInsights],
   searchQueries |-> m.searchQueries,
   evidenceSources |-> Len(m.evidenceDocs)]

catchError(m, c, message) ==
  LET caught(m1) == returns(m1, c, fallbackResult(m1, message))
  IN  caught([step(m, c, "error") EXCEPT !.error[c] = <<message>>])

\* the promise of handleCasualQuery or runVerification settles; the race in
\* verifyClaimAgentic sees it only while the call has not returned yet
resolveRun(m, c, r) ==
  IF m.status[c] = "active" THEN returns([m EXCEPT !.pc[c] = "done"], c, r)
  ELSE [m EXCEPT !.pc[c] = "done"]

rejectRun(m, c, message) ==
  IF m.status[c] = "active" THEN catchError([m EXCEPT !.pc[c] = "failed"], c, message)
  ELSE [m EXCEPT !.pc[c] = "failed"]

\* -- handleCasualQuery ---------------------------------------------------

casualResult(summary, analysisText) ==
  [isVerified |-> JBool(TRUE),
   confidence |-> JNum(100),
   riskLevel |-> JStr(<<"LOW">>),
   factCheckSummary |-> JStr(summary),
   analysis |-> JStr(analysisText),
   evidence |-> <<>>,
   agentInsights |-> [value |-> [claimAnalyst |-> <<"N/A - Casual query">>,
         evidenceResearcher |-> <<"N/A - Casual query">>,
         factChecker |-> <<"N/A - Casual query">>,
         synthesizer |-> <<"N/A - Casual query">>]],
   searchQueries |-> <<>>,
   evidenceSources |-> 0]

casualFailed(m, c) ==
  resolveRun(finish(step(m, c, "casual-error"), c, "casual"), c,
             casualResult(<<"I apologize, but I encountered an error processing your casual query. Please try rephrasing your question.">>, <<"Error: ">>))

handleCasualQuery(m, c) ==
  LET started(m1) ==
        IF ~genAI THEN casualFailed(m1, c)
        ELSE [step(m1, c, "casual-generating") EXCEPT !.pc[c] = "casual"]
  IN  started(begin(step(m, c, "casual-handling"), c, "casual"))

casualAnswered(m, c, answer) ==
  IF answer.kind = "throw" THEN casualFailed(m, c)
  ELSE resolveRun(finish(step(m, c, "casual-ok"), c, "casual"), c,
         casualResult(orElse(trim(answer.text), <<"I'm here to help with your question!">>),
                      <<"This was a casual query handled by the conversational agent.">>))

\* -- detector.safeGenerate / extractJsonFromResponse -----------------------
\* text && text.includes('{')
validAnswer(answer) == answer.kind = "text" /\ answer.brace

\* safeGenerate going round once more than retries allows
generateOutcomeOneMore(answer, i) ==
  IF validAnswer(answer)
  THEN (IF answer.json = NoJson THEN "error" ELSE "json")
  ELSE (IF i <= Retries THEN "retry" ELSE "error")

\* what one answer does to the retry loop of safeGenerate followed by
\* extractJsonFromResponse: "retry" (the loop calls the model again),
\* "error" (the loop is exhausted, or no tier parses the text), or "json"
generateOutcome(answer, i) ==
  IF validAnswer(answer)
  THEN (IF answer.json = NoJson THEN "error" ELSE "json")
  ELSE (IF i < Retries THEN "retry" ELSE "error")

\* -- detector.analyzeClaim ----------------------------------------------
GeneralContext == <<"General claim verification">>

longWords(text) == SelectSeq(split(text, " "), LAMBDA w : Len(w) > 3)

analysisParsed(text, parsed) ==
  [claim |-> text,
   extractedClaims |-> jsOr(parsed.extractedClaims, JArr(<<text>>)),
   keywords |-> jsOr(parsed.keywords, JArr(longWords(text))),
   context |-> jsOr(parsed.context, JStr(GeneralContext))]

analysisFallback(text) ==
  [claim |-> text,
   extractedClaims |-> JArr(<<text>>),
   keywords |-> JArr(slice(longWords(text), 5)),
   context |-> JStr(GeneralContext)]

\* -- detector.verifyClaimWithEvidence -------------------------------------
verificationParsed(parsed) ==
  [isVerified |-> jsOr(parsed.isVerified, JBool(FALSE)),
   confidence |-> jsOr(parsed.confidence, JNum(0)),
   analysis |-> jsOr(parsed.analysis, JStr(<<"Unable to analyze claim">>)),
   riskLevel |-> jsOr(parsed.riskLevel, JStr(<<"MEDIUM">>)),
   factCheckSummary |-> jsOr(parsed.factCheckSummary, JStr(<<"Unable to verify claim">>))]

verificationFallback ==
  [isVerified |-> JBool(FALSE),
   confidence |-> JNum(0),
   analysis |-> JStr(<<"Error occurred during verification">>),
   riskLevel |-> JStr(<<"MEDIUM">>),
   factCheckSummary |-> JStr(<<"Verification failed due to model error">>)]

\* -- detector.fetchGoogleNewsSearch ---------------------------------------
fetchGoogleNewsSearch(answer) ==
  IF answer.kind \in {"throw", "nothing"} THEN <<>>
  ELSE sortDesc(answer.news,
                [a \in Range(answer.news) |-> getRecencyScore(a.date)])

RECURSIVE flatten(_)
flatten(xss) == IF xss = <<>> THEN <<>> ELSE Head(xss) \o flatten(Tail(xss))

\* -- runVerification -------------------------------------------------------
\* one of the articlePromises
Pending == [state |-> "pending"]
\* failed: getJson threw inside this fetch
Settled(articles, failed) ==
  [state |-> "settled", articles |-> articles, failed |-> failed]

\* the fact checker has answered: the rest of runVerification
runFactChecked(m, c, verification) ==
  LET verdict == IF truthy(verification.isVerified)
                 THEN <<"Verdict: SUPPORTED">>
                 ELSE <<"Verdict: REFUTED/INCONCLUSIVE">>
      finalResult(m2) ==
        [isVerified |-> verification.isVerified,
         confidence |-> verification.confidence,
         riskLevel |-> verification.riskLevel,
         factCheckSummary |-> verification.factCheckSummary,
         analysis |-> verification.analysis,
         evidence |-> mapEvidenceToNewsArticles(m2.evidenceDocs),
         agentInsights |-> [ref |-> m2.agentInsights],
         searchQueries |-> m2.searchQueries,
         evidenceSources |-> Len(m2.evidenceDocs)]
      build(m2) ==
        resolveRun(finish(step(m2, c, "complete"), c, "build"), c, finalResult(m2))
  IN  build(begin(finish(step(
        late([m EXCEPT !.insightsObjects[m.agentInsights].factChecker = verdict],
             c, "agentInsights"),
        c, "factchecker-completed"), c, "factcheck"), c, "build"))

\* findRelevantEvidence has answered: stage 3 ends, stage 4 begins
runRetrieved(m, c, docs) ==
  LET \* verifyClaimWithEvidence builds its prompt outside its try block:
      \* getGenerativeModel and extractedClaims.join may throw
      stage4(m2) ==
        IF ~genAI \/ m2.analysis[c].extractedClaims.t # "array"
        THEN rejectRun(m2, c, "Verification failed")
        ELSE [m2 EXCEPT !.pc[c] = "factcheck", !.attempt[c] = 0]
  IN  stage4(begin(step(finish(step(
        late([m EXCEPT
                !.evidenceDocs =
                   sortDesc(docs, [d \in Range(docs) |-> docRecency(d)]),
                !.retrieved[c] = docs],
             c, "evidenceDocs"),
        c, "retrieved"), c, "retrieval"), c, "stage4"), c, "factcheck"))

\* stage 2 is over: stage 3 begins
runStored(m, c) ==
  [begin(step(finish(step(m, c, "researcher-completed"), c, "research"),
              c, "stage3"), c, "retrieval")
     EXCEPT !.pc[c] = "retrieve"]

\* runSearchedAllOrNothing is a join without the isolation (Promise.all on
\* fetches that reject): one failed fetch rejects the run, to see that C14
\* rests on the conversion of a failure into an empty list.
runSearchedAllOrNothing(m, c) ==
  LET found == [i \in 1..Len(m.searches[c]) |-> m.searches[c][i].articles]
  IN  IF \E i \in 1..Len(m.searches[c]) : m.searches[c][i].failed
      THEN rejectRun(m, c, "Verification failed")
      ELSE IF Len(flatten(found)) > 0 THEN [m EXCEPT !.pc[c] = "store"]
           ELSE runStored(m, c)

\* Promise.allSettled(articlePromises) has resolved
runSearched(m, c) ==
  LET found == [i \in 1..Len(m.searches[c]) |-> m.searches[c][i].articles]
      allArticles(flat) ==
        sortDesc(flat, [a \in Range(flat) |-> getRecencyScore(a.date)])
  IN  IF Len(allArticles(flatten(found))) > 0 THEN [m EXCEPT !.pc[c] = "store"]
      ELSE runStored(m, c)

\* analyzeClaim has resolved: stage 1 ends, stage 2 begins
runAnalyzed(m, c, a) ==
  LET \* analysis.extractedClaims.length
      count == CASE a.extractedClaims.t = "array" -> JNum(Len(a.extractedClaims.a))
                 [] a.extractedClaims.t = "string" -> JNum(Len(a.extractedClaims.s))
                 [] OTHER -> JUndef
      searching(m3) == IF m3.searches[c] = <<>> THEN runSearched(m3, c) ELSE m3
      stage2(m2, queries) ==
        IF a.keywords.t # "array"
        THEN \* keywords.slice is not a function
             rejectRun(m2, c, "Verification failed")
        ELSE searching(
               late([m2 EXCEPT !.searchQueries = queries,
                               !.searches[c] = [i \in 1..Len(queries) |-> Pending],
                               !.pc[c] = "search"],
                    c, "searchQueries"))
  IN  stage2(begin(step(finish(step(
               late([m EXCEPT
                       !.analysis[c] = a,
                       !.insightsObjects[m.agentInsights].claimAnalyst =
                          <<"Extracted sub-claims", count>>],
                    c, "agentInsights"),
               c, "analyst-completed"), c, "analysis"), c, "stage2"), c, "research"),
             slice(a.keywords.a, 2))

runVerification(m, c) ==
  \* analyzeClaim calls this.genAI.getGenerativeModel outside its try block
  IF ~genAI THEN rejectRun(begin(m, c, "analysis"), c, "Verification failed")
  ELSE [begin(m, c, "analysis") EXCEPT !.pc[c] = "analyze", !.attempt[c] = 0]

\* -- routeQuery ----------------------------------------------------------
\* routed: the rest of verifyClaimAgentic once routeQuery has resolved.
\* routedFallsThrough is a dispatch that starts runVerification after
\* handleCasualQuery as well, to see that C10 rests on the two branches
\* being exclusive.
routedFallsThrough(m, c, type) ==
  LET race(m2) == IF m2.status[c] = "active" /\ m2.timeout[c] = "fired"
                  THEN catchError(m2, c, "Verification timeout")
                  ELSE m2
      dispatch(m1) ==
        runVerification(IF type = "casual" THEN handleCasualQuery(m1, c) ELSE m1, c)
  IN  race(dispatch([finish(m, c, "classification") EXCEPT !.queryType[c] = type]))

\* routedAlwaysVerifies is a dispatch without the short-circuit: the run
\* goes through the verification pipeline whatever routeQuery returned, to
\* see that C12 rests on the casual branch.
routedAlwaysVerifies(m, c, type) ==
  LET race(m2) == IF m2.status[c] = "active" /\ m2.timeout[c] = "fired"
                  THEN catchError(m2, c, "Verification timeout")
                  ELSE m2
  IN  race(runVerification([finish(m, c, "classification")
                              EXCEPT !.queryType[c] = type], c))

routed(m, c, type) ==
  LET \* Promise.race: a timeoutPromise that is rejected already wins over a
      \* result promise that is still pending
      race(m2) == IF m2.status[c] = "active" /\ m2.timeout[c] = "fired"
                  THEN catchError(m2, c, "Verification timeout")
                  ELSE m2
      dispatch(m1) == IF type = "casual" THEN handleCasualQuery(m1, c)
                      ELSE runVerification(m1, c)
  IN  race(dispatch([finish(m, c, "classification") EXCEPT !.queryType[c] = type]))

classify(answer) ==
  IF answer.kind = "throw" THEN "failed"
  ELSE IF includes(toUpperCase(trim(answer.text)), CASUAL) THEN "casual"
       ELSE "verification"

routeAnswered(m, c, answer) ==
  LET message(outcome) ==
        CASE outcome = "casual" -> "classified-casual"
          [] outcome = "verification" -> "classified-verification"
          [] OTHER -> "classification-failed"
      type(outcome) == IF outcome = "casual" THEN "casual" ELSE "verification"
  IN  routed(step([m EXCEPT !.classification[c] = answer], c,
                  message(classify(answer))),
             c, type(classify(answer)))

routeQuery(m, c) ==
  LET asked(m1) == IF genAI THEN [m1 EXCEPT !.pc[c] = "route"]
                   ELSE routed(m1, c, "verification")
  IN  asked(begin(step(m, c, "routing"), c, "classification"))

\* -- verifyClaimAgentic ----------------------------------------------------
AlreadyRunning == <<"Verification already in progress">>

\* verifyClaimAgenticUnguarded is verifyClaimAgentic without its isRunning
\* guard, to see that C2 rests on the guard
verifyClaimAgenticUnguarded(m, c, text) ==
  LET user(m2) == IF userName # NoVal THEN step(m2, c, "user") ELSE m2
  IN  routeQuery(
        [step(user(step([m EXCEPT !.status[c] = "active", !.claim[c] = text,
                                  !.isRunning = TRUE],
                        c, "start")),
              c, "claim")
           EXCEPT !.insightsObjects[c] = EmptyInsights,
                  !.agentInsights = c,
                  !.searchQueries = <<>>,
                  !.evidenceDocs = <<>>,
                  !.timeout[c] = "armed"],
        c)

verifyClaimAgentic(m, c, text) ==
  LET user(m2) == IF userName # NoVal THEN step(m2, c, "user") ELSE m2
  IN  IF m.isRunning
      THEN [m EXCEPT !.status[c] = "rejected", !.error[c] = AlreadyRunning]
      ELSE routeQuery(
             [step(user(step([m EXCEPT !.status[c] = "active", !.claim[c] = text,
                                       !.isRunning = TRUE],
                             c, "start")),
                   c, "claim")
                EXCEPT !.insightsObjects[c] = EmptyInsights,
                       !.agentInsights = c,
                       !.searchQueries = <<>>,
                       !.evidenceDocs = <<>>,
                       !.timeout[c] = "armed"],
             c)

\* ------------------------------------------------------------------------
\* MisinformationDetector.verifyClaim, the pipeline behind POST /verify-claim
\* ------------------------------------------------------------------------
\* the catch block of verifyClaim rethrows: the call rejects
detectorRejects(m, c, message) ==
  [m EXCEPT !.pc[c] = "failed", !.status[c] = "rejected", !.error[c] = <<message>>]

detectorReturns(m, c, r) ==
  [m EXCEPT !.pc[c] = "done", !.status[c] = "returned", !.result[c] = r]

detectorVerifyClaim(m, c, text) ==
  IF ~genAI
  THEN detectorRejects([m EXCEPT !.status[c] = "active", !.claim[c] = text],
                       c, "TypeError")
  ELSE [m EXCEPT !.status[c] = "active", !.claim[c] = text,
                 !.pc[c] = "d-analyze", !.attempt[c] = 0]

detectorAnalyzed(m, c, a) ==
  \* analysis.keywords.slice(0, 3).join(' ')
  IF a.keywords.t # "array"
  THEN detectorRejects([m EXCEPT !.analysis[c] = a], c, "TypeError")
  ELSE [m EXCEPT !.analysis[c] = a,
                 !.searchQueries = <<slice(a.keywords.a, 3)>>,
                 !.pc[c] = "d-search"]

detectorStored(m, c) == [m EXCEPT !.pc[c] = "d-retrieve"]

detectorSearched(m, c, freshNews) ==
  IF Len(freshNews) > 0 THEN [m EXCEPT !.pc[c] = "d-store"]
  ELSE detectorStored(m, c)

detectorRetrieved(m, c, docs) ==
  LET sorted(m1) ==
        IF Len(m1.evidenceDocs) = 0 THEN detectorReturns(m1, c,
              ([isVerified |-> JBool(FALSE), confidence |-> JNum(0), evidence |-> <<>>,
              analysis |-> JStr(<<"No relevant evidence found">>),
              riskLevel |-> JStr(<<"MEDIUM">>),
              factCheckSummary |-> JStr(<<"Insufficient evidence found. Please consult official news sources.">>)]))
        ELSE IF m1.analysis[c].extractedClaims.t # "array"
             THEN detectorRejects(m1, c, "TypeError")
             ELSE [m1 EXCEPT !.pc[c] = "d-factcheck", !.attempt[c] = 0]
  IN  sorted([m EXCEPT !.retrieved[c] = docs,
                       !.evidenceDocs =
                          sortDesc(docs, [d \in Range(docs) |-> docRecency(d)])])

detectorFactChecked(m, c, verification, ok) ==
  LET relevantArticle(doc) ==
        [title |-> doc.title,
         snippet |-> slice(doc.pageContent, 200) \o Ellipsis,
         link |-> doc.link,
         date |-> doc.date,
         source |-> doc.source]
  IN
    LET relevantArticles(sortedEvidence) ==
          [i \in 1..Len(sortedEvidence) |-> relevantArticle(sortedEvidence[i])]
    IN  detectorReturns(m, c,
          [isVerified |-> verification.isVerified,
           confidence |-> verification.confidence,
           evidence |-> IF ok
                        THEN relevantArticles(
                               sortDesc(m.evidenceDocs,
                                        [d \in Range(m.evidenceDocs) |-> docRecency(d)]))
                        ELSE <<>>,
           analysis |-> verification.analysis,
           riskLevel |-> verification.riskLevel,
           factCheckSummary |-> verification.factCheckSummary])

\* ------------------------------------------------------------------------
\* AgenticRAGVerifier (google-generative-ai.d.ts): the four-agent pipeline.
\* It keeps nothing between calls; the locals of its one call are held in
\* the variables of call 1: searchQueries and evidenceDocs are
\* evidence.searchQueries and evidence.kbDocs, searches[1] are the fetches
\* of the query loop so far, insightsObjects[1] are the agents' outputs.
\* ------------------------------------------------------------------------

\* s.split(/[^a-z0-9]+/g); a run of separators gives empty pieces here,
\* which the length filter of extractClaimKeywords drops
RECURSIVE alnumRuns(_, _)
alnumRuns(s, run) ==
  IF s = <<>> THEN <<run>>
  ELSE IF Head(s) \in Digits \cup {"a", "b", "c", "d", "e", "f", "g", "h", "i", "j", "k",
        "l", "m", "n", "o", "p", "q", "r", "s", "t", "u", "v", "w", "x", "y", "z"} THEN
        alnumRuns(Tail(s), Append(run, Head(s)))
       ELSE <<run>> \o alnumRuns(Tail(s), <<>>)

extractClaimKeywords(text) ==
  LET unique(tokens) == dedupe(tokens, [t \in Range(tokens) |-> t], {})
  IN  slice(unique(SelectSeq(alnumRuns(toLowerCase(text), <<>>),
                             LAMBDA t : Len(t) >= 4)), 25)

\* Date.now(), in the unit of DateParse: the clock reads the start of 2025
Now == 20075

\* hits / keywords.length as a fraction; 0.4 without keywords
computeKeywordCoverage(keywords, text) ==
  IF keywords = <<>> THEN [num |-> 2, den |-> 5]
  ELSE [num |-> Cardinality({i \in 1..Len(keywords) :
                               includes(toLowerCase(text), keywords[i])}),
        den |-> Len(keywords)]

\* the weight in hundredths; a year of DateParse is 365 days
computeRecencyWeight(dateString) ==
  LET weight(daysOld) ==
        IF daysOld <= 1 THEN 100
        ELSE IF daysOld <= 3 THEN 90
        ELSE IF daysOld <= 7 THEN 75
        ELSE IF daysOld <= 14 THEN 60
        ELSE IF daysOld <= 30 THEN 45
        ELSE 25
  IN  IF getRecencyScore(dateString) = 0 THEN 30
      ELSE weight(Now - getRecencyScore(dateString))

\* keywordScore * kw + recencyWeight * rw with kw and rw in hundredths,
\* times 10000 * den so that it is an integer
combinedScore(coverage, weight, kw, rw) ==
  [value |-> 100 * kw * coverage.num + rw * weight * coverage.den,
   den |-> coverage.den]

\* score >= hundredths / 100
scoreAtLeast(score, hundredths) == score.value >= 100 * hundredths * score.den

scoreNewsArticle(article, keywords) ==
  combinedScore(
    computeKeywordCoverage(keywords,
      nullish(article.title, <<>>) \o <<" ">> \o nullish(article.snippet, <<>>)),
    computeRecencyWeight(article.date), 70, 30)

scoreDocument(doc, keywords) ==
  combinedScore(
    computeKeywordCoverage(keywords,
      nullish(doc.title, <<>>) \o <<" ">> \o nullish(doc.pageContent, <<>>)),
    computeRecencyWeight(nullish(doc.date, doc.published_at)), 65, 35)

\* safeField on a value that is a text or undefined
safeField(v) == IF v = NoVal THEN UnknownText ELSE v

mapEvidence(docs) ==
  LET uniqueDocs(ds) == dedupe(ds, [d \in Range(ds) |-> docKey(d)], {})
      sortedDocs(ds) == sortDesc(ds, [d \in Range(ds) |-> docRecency(d)])
      mapped(ds) ==
        [i \in 1..Len(ds) |->
           [title   |-> safeField(nullish(ds[i].title,
                                          nullish(ds[i].source, UntitledSource))),
            snippet |-> slice(safeField(ds[i].pageContent), 200) \o Ellipsis,
            link    |-> extractLink(ds[i]),
            date    |-> safeField(ds[i].date),
            source  |-> safeField(nullish(ds[i].source, UnknownText))]]
      unique(as) == dedupe(as, [a \in Range(as) |-> articleKey(a)], {})
      sorted(as) == sortDesc(as, [a \in Range(as) |-> getRecencyScore(a.date)])
      withLinks(as) == SelectSeq(as, LAMBDA a : isValidLink(a.link))
  IN  slice(withLinks(sorted(unique(mapped(sortedDocs(uniqueDocs(docs)))))), 8)

\* a ?? b on tagged values
jsNullish(a, b) == IF a.t = "undefined" THEN b ELSE a

RECURSIVE digitsValue(_)
digitsValue(s) ==
  IF s = <<>> THEN 0
  ELSE 10 * digitsValue(SubSeq(s, 1, Len(s) - 1)) + DigitVal(s[Len(s)])

\* verifyClaimAgentic returns final
verifierReturns(m, r) ==
  [step(m, 1, "complete") EXCEPT
     !.pc[1] = "done", !.status[1] = "returned", !.result[1] = r]

\* the result object of synthesizeResults around the fields v
synthesized(m, v) ==
  [isVerified |-> v.isVerified,
   confidence |-> v.confidence,
   riskLevel |-> v.riskLevel,
   factCheckSummary |-> v.factCheckSummary,
   analysis |-> v.analysis,
   evidence |-> mapEvidence(m.evidenceDocs),
   agentInsights |->
     [value |-> [m.insightsObjects[1] EXCEPT !.synthesizer = v.synthesizer]],
   searchQueries |-> m.searchQueries,
   evidenceSources |-> Len(m.evidenceDocs)]

\* synthesisFallbackBare is a catch block that forgets the evidence context
\* (no search queries, no sources), to see that C22 rests on the fallback
\* carrying them over.
synthesisFallbackBare(m) ==
  verifierReturns(step(m, 1, "synthesis-fallback"),
    [synthesized(m,
       [isVerified |-> JBool(FALSE),
        confidence |-> JNum(50),
        riskLevel |-> JStr(<<"MEDIUM">>),
        factCheckSummary |->
          JStr(<<"Evidence is inconclusive at this time. The claim should be treated as unverified and handled with caution.">>),
        analysis |->
          JStr(<<"Fallback synthesis executed due to an error in the primary synthesis model.">>),
        synthesizer |->
          <<"Fallback synthesizer used; no structured key findings available.">>])
     EXCEPT !.searchQueries = <<>>, !.evidenceSources = 0])

\* the catch block of synthesizeResults
synthesisFallback(m) ==
  verifierReturns(step(m, 1, "synthesis-fallback"),
    synthesized(m,
      [isVerified |-> JBool(FALSE),
       confidence |-> JNum(50),
       riskLevel |-> JStr(<<"MEDIUM">>),
       factCheckSummary |->
         JStr(<<"Evidence is inconclusive at this time. The claim should be treated as unverified and handled with caution.">>),
       analysis |->
         JStr(<<"Fallback synthesis executed due to an error in the primary synthesis model.">>),
       synthesizer |->
         <<"Fallback synthesizer used; no structured key findings available.">>]))

\* synthesizeResults: the synthesis model answers, or the model asked to
\* refine the summary does
synthesizeResults(m, answer) ==
  LET toNumber(j) ==
        CASE j.t = "number" -> j
          [] j.t = "boolean" -> JNum(IF j.b THEN 1 ELSE 0)
          [] j.t = "string" /\ (\A i \in 1..Len(j.s) : j.s[i] \in Digits) ->
               JNum(digitsValue(j.s))
          [] j.t = "array" /\ j.a = <<>> -> JNum(0)
          [] OTHER -> [t |-> "nan", b |-> FALSE, n |-> 0, s |-> <<>>, a |-> <<>>]
  IN
    LET parsedResult(parsed) ==
          synthesized(m,
            [isVerified |-> JBool(truthy(parsed.isVerified)),
             confidence |-> toNumber(jsNullish(parsed.confidence, JNum(50))),
             riskLevel |-> jsNullish(parsed.riskLevel, JStr(<<"MEDIUM">>)),
             factCheckSummary |->
               jsOr(parsed.factCheckSummary,
                    JStr(<<"No clear conclusion available based on the current evidence.">>)),
             analysis |->
               jsOr(parsed.analysis,
                    JStr(<<"Analysis generated from the combined outputs of claim analyst, evidence researcher, and fact checker.">>)),
             synthesizer |-> <<"keyFindings">>])
        \* refineSummaryWithEvidence returns at once without evidence
        refineSummaryWithEvidence(m1) ==
          IF m1.result[1].evidence = <<>> THEN verifierReturns(m1, m1.result[1])
          ELSE [m1 EXCEPT !.pc[1] = "v-refine"]
        refined(summary) ==
          IF answer.kind = "throw" \/ trim(answer.text) = <<>> THEN summary
          ELSE JStr(trim(answer.text))
    IN  CASE m.pc[1] = "v-synth" ->
               IF answer.kind = "throw" \/ answer.json = NoJson
               THEN synthesisFallback(m)
               ELSE refineSummaryWithEvidence(
                      [step(m, 1, "synthesis-completed") EXCEPT
                         !.result[1] = parsedResult(answer.json)])
          [] m.pc[1] = "v-refine" ->
               verifierReturns(m, [m.result[1] EXCEPT
                                     !.factCheckSummary = refined(@)])

\* runFactChecker once its model call has settled, and synthesizeResults up
\* to its model call
runFactChecker(m, answer) ==
  LET synthesize(m1) ==
        \* this.detector.genAI.getGenerativeModel is inside the try block
        IF ~genAI THEN synthesisFallback(m1) ELSE [m1 EXCEPT !.pc[1] = "v-synth"]
  IN  synthesize(step(step(
        [m EXCEPT !.insightsObjects[1].factChecker =
                     IF answer.kind = "throw"
                     THEN <<"VERDICT: INCONCLUSIVE">> ELSE answer.text],
        1, IF answer.kind = "throw" THEN "factchecker-fallback"
           ELSE "factchecker-completed"),
        1, "stage4"))

\* runEvidenceResearcher has returned: runFactChecker asks its model
researched(m) == [step(m, 1, "stage3") EXCEPT !.pc[1] = "v-factcheck"]

\* scoredDocs and curatedKbDocs of runEvidenceResearcher: the documents
\* scoring at least 0.2, by descending score, the first twelve
curatedKbDocs(kbDocs, keywords) ==
  LET ranked(items, score) ==
        sortDesc(items, [x \in Range(items) |-> score[x].value])
  IN  slice(ranked(SelectSeq(kbDocs, LAMBDA d :
                     scoreAtLeast(scoreDocument(d, keywords), 20)),
                   [d \in Range(kbDocs) |-> scoreDocument(d, keywords)]), 12)

\* runEvidenceResearcher: one of its awaits settles
runEvidenceResearcher(m, answer) ==
  LET \* content.split('\n').map(q => q.trim()).filter(Boolean).slice(0, 3)
      queries(lines) ==
        slice(SelectSeq([i \in 1..Len(lines) |-> trim(lines[i])],
                        LAMBDA q : q # <<>>), 3)
      \* the head of the for loop, and what follows the loop
      nextQuery(m1) ==
        IF Len(m1.searches[1]) < Len(m1.searchQueries)
        THEN [step(m1, 1, "searching") EXCEPT !.pc[1] = "v-fetch"]
        ELSE [step(m1, 1, "finding") EXCEPT !.pc[1] = "v-retrieve"]
      fetched(fresh) ==
        [m EXCEPT !.searches[1] =
                     Append(@, Settled(slice(fresh, 5), answer.kind = "throw")),
                  !.pc[1] = IF Len(fresh) > 0 THEN "v-store" ELSE "v-delay"]
      ranked(items, score) ==
        sortDesc(items, [x \in Range(items) |-> score[x].value])
      curatedNewsArticles(news, keywords) ==
        slice(ranked(SelectSeq(news, LAMBDA a :
                       scoreAtLeast(scoreNewsArticle(a, keywords), 25)),
                     [a \in Range(news) |-> scoreNewsArticle(a, keywords)]), 10)
      newsArticles(found) ==
        sortDesc(found, [a \in Range(found) |-> getRecencyScore(a.date)])
      summarised(m1, keywords) ==
        [m1 EXCEPT !.insightsObjects[1].evidenceResearcher =
                      <<"Evidence summary", m1.searchQueries,
                        Len(curatedNewsArticles(
                              newsArticles(flatten(
                                [i \in 1..Len(m1.searches[1]) |->
                                   m1.searches[1][i].articles])), keywords)),
                        Len(m1.evidenceDocs)>>]
      retrievedDocs(docs, keywords) ==
        researched(step(summarised(
          [m EXCEPT !.retrieved[1] = docs,
                    !.evidenceDocs =
                       curatedKbDocs(
                         sortDesc(docs, [d \in Range(docs) |-> docRecency(d)]),
                         keywords)],
          keywords), 1, "researcher-completed"))
  IN  CASE m.pc[1] = "v-queries" ->
             IF answer.kind = "throw"
             THEN researched(step(
                    [m EXCEPT !.insightsObjects[1].evidenceResearcher =
                                 <<"Evidence fallback summary">>],
                    1, "researcher-fallback"))
             ELSE nextQuery(step(
                    [m EXCEPT !.searchQueries = queries(split(answer.text, "\n"))],
                    1, "queries"))
        [] m.pc[1] = "v-fetch" -> fetched(fetchGoogleNewsSearch(answer))
        [] m.pc[1] = "v-store" ->
             [step(m, 1, IF answer.kind = "throw" THEN "store-failed" ELSE "stored")
                EXCEPT !.pc[1] = "v-delay"]
        [] m.pc[1] = "v-delay" -> nextQuery(m)
        [] m.pc[1] = "v-retrieve" ->
             retrievedDocs(IF answer.kind = "throw" THEN <<>> ELSE answer.docs,
                           extractClaimKeywords(m.claim[1]))

\* runClaimAnalyst: one of its awaits settles; when it returns,
\* runEvidenceResearcher asks the model for queries
runClaimAnalyst(m, answer) ==
  LET analysed(outcome) ==
        IF outcome = "retry" THEN [m EXCEPT !.attempt[1] = @ + 1]
        ELSE [m EXCEPT !.analysis[1] =
                          IF outcome = "json"
                          THEN analysisParsed(m.claim[1], answer.json)
                          ELSE analysisFallback(m.claim[1]),
                       !.pc[1] = "v-enrich"]
      returned(output, message) ==
        [step(step([m EXCEPT !.insightsObjects[1].claimAnalyst = output],
                   1, message), 1, "stage2")
           EXCEPT !.pc[1] = "v-queries"]
  IN  CASE m.pc[1] = "v-analyze" ->
             analysed(generateOutcome(answer, m.attempt[1]))
        [] m.pc[1] = "v-enrich" ->
             \* the catch of toolAnalyzeClaim: the brief is asked for either way
             [m EXCEPT !.pc[1] = "v-brief"]
        [] m.pc[1] = "v-brief" ->
             IF answer.kind = "throw"
             THEN returned(<<"Fallback claim analysis">>, "analyst-fallback")
             ELSE returned(answer.text, "analyst-completed")

\* AgenticRAGVerifier.verifyClaimAgentic up to its first await
verifierVerifyClaimAgentic(m, text) ==
  LET \* detector.analyzeClaim reads this.genAI outside its try block; the
      \* catch of toolAnalyzeClaim turns the TypeError into a partial result
      toolAnalyzeClaim(m1) ==
        IF ~genAI THEN [m1 EXCEPT !.pc[1] = "v-brief"]
        ELSE [m1 EXCEPT !.pc[1] = "v-analyze", !.attempt[1] = 0]
  IN  toolAnalyzeClaim(step(step(step(step(
        [m EXCEPT !.status[1] = "active", !.claim[1] = text],
        1, "start"), 1, "claim"), 1, "stage1"), 1, "analyzing"))

\* ------------------------------------------------------------------------
\* Actions: one macrotask each
\* ------------------------------------------------------------------------
\* a caller invokes verifyClaimAgentic; the calls of a host are numbered in
\* the order they are made, and /verify-stream makes one call per instance
Call(c) ==
  /\ status[c] = "idle"
  /\ \A d \in 1..(c - 1) : status[d] # "idle"
  /\ host \in {"watcher", "stream"}
  /\ host = "stream" => c = 1
  /\ \E text \in Claims(host) : Commit(verifyClaimAgentic(Machine, c, text))

\* the classifier model answers routeQuery
RouteAnswer(c) ==
  /\ pc[c] = "route"
  /\ \E answer \in (IF host = "watcher"
                    THEN {Text(CASUAL), Text(Texts.verification)}
                    ELSE {Throws, Text(<<>>), Text(CASUAL), Text(Texts.casualLower),
                          Text(Texts.verification), Text(Texts.notCasual),
                          Text(Texts.bothLabels), Text(Texts.maybe)}) :
       Commit(routeAnswered(Machine, c, answer))

\* the conversational model answers handleCasualQuery
CasualAnswer(c) ==
  /\ pc[c] = "casual"
  /\ \E answer \in (IF host = "watcher" THEN {Throws, Text(<<"o", "k", " ">>)}
                    ELSE {Throws, Text(<<"o", "k", " ">>), Text(<<>>)}) :
       Commit(casualAnswered(Machine, c, answer))

\* the model answers safeGenerate inside analyzeClaim
AnalyzeAnswer(c) ==
  /\ pc[c] = "analyze"
  /\ \E answer \in AnalysisAnswers(host) :
       LET next(outcome) ==
             CASE outcome = "retry" -> [Machine EXCEPT !.attempt[c] = @ + 1]
               [] outcome = "error" ->
                    runAnalyzed(Machine, c, analysisFallback(claim[c]))
               [] outcome = "json" ->
                    runAnalyzed(Machine, c, analysisParsed(claim[c], answer.json))
       IN  Commit(next(generateOutcome(answer, attempt[c])))

\* the search collaborator answers one of the parallel fetches
SearchAnswer(c, i) ==
  /\ pc[c] = "search"
  /\ i \in 1..Len(searches[c])
  /\ searches[c][i] = Pending
  /\ \E answer \in SearchAnswers(host) :
       LET settled(m1) ==
             IF \A j \in 1..Len(searches[c]) : m1.searches[c][j].state = "settled"
             THEN runSearched(m1, c) ELSE m1
       IN  Commit(settled([Machine EXCEPT
                             !.searches[c][i] =
                                Settled(slice(fetchGoogleNewsSearch(answer), 2),
                                        answer.kind = "throw")]))

\* the similarity store answers storeNewsArticles
StoreAnswer(c) ==
  /\ pc[c] = "store"
  /\ \E answer \in StoreAnswers :
       Commit(IF answer.kind = "throw"
              THEN rejectRun(Machine, c, "Verification failed")
              ELSE runStored(Machine, c))

\* the similarity store answers findRelevantEvidence, which turns a
\* failure into an empty list
RetrieveAnswer(c) ==
  /\ pc[c] = "retrieve"
  /\ \E answer \in RetrieveAnswers(host) :
       Commit(runRetrieved(Machine, c,
                IF answer.kind = "throw" THEN <<>> ELSE answer.docs))

\* the model answers safeGenerate inside verifyClaimWithEvidence
FactcheckAnswer(c) ==
  /\ pc[c] = "factcheck"
  /\ \E answer \in FactcheckAnswers(host) :
       LET next(outcome) ==
             CASE outcome = "retry" -> [Machine EXCEPT !.attempt[c] = @ + 1]
               [] outcome = "error" ->
                    runFactChecked(Machine, c, verificationFallback)
               [] outcome = "json" ->
                    runFactChecked(Machine, c, verificationParsed(answer.json))
       IN  Commit(next(generateOutcome(answer, attempt[c])))

\* the timer of timeoutPromise fires after timeoutMs and rejects it; the
\* catch block runs if the call is waiting in Promise.race.  Once the call
\* has returned the rejection changes nothing, and the timer is left out.
Timeout(c) ==
  /\ timeout[c] = "armed"
  /\ status[c] = "active"
  /\ Commit(IF pc[c] # "route"
            THEN catchError([Machine EXCEPT !.timeout[c] = "fired"], c,
                            "Verification timeout")
            ELSE [Machine EXCEPT !.timeout[c] = "fired"])

\* req.on("close"): the handler ends the response
Close ==
  /\ host = "stream"
  /\ status[1] # "idle"
  /\ stream.closed = "no"
  /\ Commit(resEnd([Machine EXCEPT
                      !.stream.closed = IF status[1] = "active" THEN "during"
                                        ELSE "after"]))

\* POST /verify-claim calls detector.verifyClaim
DetectorCall ==
  /\ host = "verify-claim"
  /\ status[1] = "idle"
  /\ \E text \in Claims(host) : Commit(detectorVerifyClaim(Machine, 1, text))

DetectorAnalyzeAnswer ==
  /\ pc[1] = "d-analyze"
  /\ \E answer \in AnalysisAnswers(host) :
       LET next(outcome) ==
             CASE outcome = "retry" -> [Machine EXCEPT !.attempt[1] = @ + 1]
               [] outcome = "error" ->
                    detectorAnalyzed(Machine, 1, analysisFallback(claim[1]))
               [] outcome = "json" ->
                    detectorAnalyzed(Machine, 1, analysisParsed(claim[1], answer.json))
       IN  Commit(next(generateOutcome(answer, attempt[1])))

DetectorSearchAnswer ==
  /\ pc[1] = "d-search"
  /\ \E answer \in SearchAnswers(host) :
       Commit(detectorSearched(Machine, 1, fetchGoogleNewsSearch(answer)))

DetectorStoreAnswer ==
  /\ pc[1] = "d-store"
  /\ \E answer \in StoreAnswers :
       Commit(IF answer.kind = "throw"
              THEN detectorRejects(Machine, 1, "store")
              ELSE detectorStored(Machine, 1))

DetectorRetrieveAnswer ==
  /\ pc[1] = "d-retrieve"
  /\ \E answer \in RetrieveAnswers(host) :
       Commit(detectorRetrieved(Machine, 1,
                IF answer.kind = "throw" THEN <<>> ELSE answer.docs))

DetectorFactcheckAnswer ==
  /\ pc[1] = "d-factcheck"
  /\ \E answer \in FactcheckAnswers(host) :
       LET next(outcome) ==
             CASE outcome = "retry" -> [Machine EXCEPT !.attempt[1] = @ + 1]
               [] outcome = "error" ->
                    detectorFactChecked(Machine, 1, verificationFallback, FALSE)
               [] outcome = "json" ->
                    detectorFactChecked(Machine, 1,
                                        verificationParsed(answer.json), TRUE)
       IN  Commit(next(generateOutcome(answer, attempt[1])))

\* a caller invokes AgenticRAGVerifier.verifyClaimAgentic
VerifierCall ==
  /\ host = "verifier"
  /\ status[1] = "idle"
  /\ \E text \in Claims(host) : Commit(verifierVerifyClaimAgentic(Machine, text))

\* an await of runClaimAnalyst settles: detector.analyzeClaim's model call,
\* the enrichment prompt or the brief
AnalystAnswer ==
  /\ pc[1] \in {"v-analyze", "v-enrich", "v-brief"}
  /\ \E answer \in (IF pc[1] = "v-analyze" THEN AnalysisAnswers(host)
                    ELSE {Throws, Text(<<"o", "k">>)}) :
       Commit(runClaimAnalyst(Machine, answer))

\* an await of runEvidenceResearcher settles: the query prompt, a search,
\* a store write, the 800 ms pause or the similarity search
ResearcherAnswer ==
  /\ pc[1] \in {"v-queries", "v-fetch", "v-store", "v-delay", "v-retrieve"}
  /\ \E answer \in (CASE pc[1] = "v-queries" -> {Throws, Text(<<"a", "\n", " ", "\n", "b",
        " ">>), Text(<<>>)}
                      [] pc[1] = "v-fetch" -> SearchAnswers(host)
                      [] pc[1] = "v-store" -> StoreAnswers
                      [] pc[1] = "v-delay" -> {[kind |-> "ok"]}
                      [] pc[1] = "v-retrieve" -> RetrieveAnswers(host)) :
       Commit(runEvidenceResearcher(Machine, answer))

\* the model call of runFactChecker settles
FactCheckerAnswer ==
  /\ pc[1] = "v-factcheck"
  /\ \E answer \in {Throws, Text(<<"VERDICT: SUPPORTED">>),
                     Text(<<"VERDICT: REFUTED">>)} :
       Commit(runFactChecker(Machine, answer))

\* an await of synthesizeResults settles: the synthesis model or the
\* refinement prompt
SynthesisAnswer ==
  /\ pc[1] \in {"v-synth", "v-refine"}
  /\ \E answer \in (IF pc[1] = "v-synth" THEN {Throws, JsonText(TRUE, NoJson), JsonText(TRUE
        , Verdicts.supported), JsonText(TRUE, Verdicts.emptyObject), JsonText(TRUE,
        Verdicts.odd)}
                    ELSE {Throws, Text(<<" ", "r", " ">>), Text(<<" ">>)}) :
       Commit(synthesizeResults(Machine, answer))

Next ==
  \/ \E c \in Calls : Call(c)
  \/ \E c \in Calls : RouteAnswer(c)
  \/ \E c \in Calls : CasualAnswer(c)
  \/ \E c \in Calls : AnalyzeAnswer(c)
  \/ \E c \in Calls : \E i \in 1..2 : SearchAnswer(c, i)
  \/ \E c \in Calls : StoreAnswer(c)
  \/ \E c \in Calls : RetrieveAnswer(c)
  \/ \E c \in Calls : FactcheckAnswer(c)
  \/ \E c \in Calls : Timeout(c)
  \/ Close
  \/ DetectorCall
  \/ DetectorAnalyzeAnswer
  \/ DetectorSearchAnswer
  \/ DetectorStoreAnswer
  \/ DetectorRetrieveAnswer
  \/ DetectorFactcheckAnswer
  \/ VerifierCall
  \/ AnalystAnswer
  \/ ResearcherAnswer
  \/ FactCheckerAnswer
  \/ SynthesisAnswer

Spec == Init /\ [][Next]_vars

\* ------------------------------------------------------------------------
\* index.ts: what the three verify endpoints do with the claim of a request
\* before they start a pipeline
\* ------------------------------------------------------------------------
MaxRequests == 2
MaxClaimLength == 1000

Repeat(ch, n) == [i \in 1..n |-> ch]

\* the claim of a request: absent, not a string, or a string
RequestClaims ==
  {JUndef, JNum(7), JStr(<<>>), JStr(<<" ">>), JStr(<<" ", "\t", "\n">>),
   JStr(<<" ", "h", "i", " ">>), JStr(Repeat("a", MaxClaimLength)),
   JStr(Repeat("a", MaxClaimLength + 1)),
   JStr(Repeat("a", MaxClaimLength) \o <<" ">>)}

BadRequest(message) ==
  [status |-> 400, error |-> message, call |-> "none", arg |-> NoVal]

Started(pipeline, text) ==
  [status |-> 200, error |-> "", call |-> pipeline, arg |-> text]

\* POST /verify-claim up to the call of detector.verifyClaim
postVerifyClaim(v) ==
  IF ~truthy(v) \/ v.t # "string" \/ Len(trim(v.s)) = 0
  THEN BadRequest("Invalid claim")
  ELSE IF Len(v.s) > MaxClaimLength
       THEN BadRequest("Claim too long")
       ELSE Started("detector.verifyClaim", trim(v.s))

\* GET /verify-stream up to the call of orchestrator.verifyClaimAgentic
getVerifyStream(v) ==
  IF ~truthy(v)
  THEN BadRequest("claim required")
  ELSE Started("orchestrator.verifyClaimAgentic", v.s)

\* POST /verify-claim-agentic up to the call of
\* orchestrator.verifyClaimAgentic
postVerifyClaimAgentic(v) ==
  IF ~truthy(v) \/ v.t # "string" \/ Len(trim(v.s)) = 0
  THEN BadRequest("Invalid claim")
  ELSE IF Len(v.s) > MaxClaimLength
       THEN BadRequest("Claim too long")
       ELSE Started("orchestrator.verifyClaimAgentic", trim(v.s))

pipelineVars ==
  <<host, genAI, userName, isRunning, agentInsights, insightsObjects,
    searchQueries, evidenceDocs, status, result, error, claim, pc, timeout,
    attempt, queryType, classification, analysis, searches, steps, stageLog,
    retrieved, lateWrites, stream>>

Handled(endpoint, v, response) ==
  [endpoint |-> endpoint, claim |-> v, response |-> response]

PostVerifyClaim ==
  /\ Len(handled) < MaxRequests
  /\ \E v \in RequestClaims :
       handled' = Append(handled, Handled("/verify-claim", v, postVerifyClaim(v)))
  /\ UNCHANGED <<pipelineVars, analyzing, scoring, watching>>

GetVerifyStream ==
  /\ Len(handled) < MaxRequests
  /\ \E v \in ({v \in RequestClaims : v.t \in {"undefined", "string"}}) :
       handled' = Append(handled, Handled("/verify-stream", v, getVerifyStream(v)))
  /\ UNCHANGED <<pipelineVars, analyzing, scoring, watching>>

PostVerifyClaimAgentic ==
  /\ Len(handled) < MaxRequests
  /\ \E v \in RequestClaims :
       handled' = Append(handled, Handled("/verify-claim-agentic", v,
                                          postVerifyClaimAgentic(v)))
  /\ UNCHANGED <<pipelineVars, analyzing, scoring, watching>>

\* the state after construction with a given host and a detector that has
\* its model
InitOf(h) == Init /\ host = h /\ genAI

SpecHttp ==
  InitOf("stream") /\ [][PostVerifyClaim \/ GetVerifyStream \/ PostVerifyClaimAgentic]_vars

\* ------------------------------------------------------------------------
\* Properties
\* ------------------------------------------------------------------------
LlmStages == {"route", "casual", "analyze", "factcheck"}

IsFallback(r) == r.isVerified = JBool(FALSE) /\ r.riskLevel = JStr(<<"HIGH">>)

\* C1: a call whose language-model call is still unanswered when the
\* deadline fires (a stalled call is unanswered for ever) has returned by
\* then, with isVerified=false and riskLevel=HIGH, whatever stage it is in.
C1_DeadlineReturns ==
  \A c \in Calls :
    (timeout[c] = "fired" /\ pc[c] \in LlmStages)
      => (status[c] = "returned" /\ IsFallback(result[c]))

\* C2: a call made while an earlier call on the instance has not returned is
\* rejected with the already-running error and changes nothing else: no
\* progress event, no stage, no field of the instance, nothing of the call
\* in progress.
C2_SecondCallRejected ==
  [][\A c \in Calls :
       (status[c] = "idle" /\ status'[c] # "idle"
        /\ \E d \in Calls : status[d] = "active")
         => /\ status'[c] = "rejected"
            /\ error'[c] = AlreadyRunning
            /\ \A d \in Calls \ {c} : status'[d] = status[d] /\ error'[d] = error[d]
            /\ UNCHANGED <<isRunning, agentInsights, insightsObjects,
                           searchQueries, evidenceDocs, result, pc, timeout,
                           attempt, queryType, analysis, searches, steps,
                           stageLog, retrieved, lateWrites, stream>>]_vars

C2_Witness ==
  \E c, d \in Calls :
    status[c] = "rejected" /\ error[c] = AlreadyRunning /\ status[d] = "active"

\* C3: the only rejection a caller of a verify call sees is the
\* already-running error.
C3_NeverRejects ==
  \A c \in Calls : status[c] = "rejected" => error[c] = AlreadyRunning

\* C4: a run writes nothing after the call that started it has returned:
\* no progress event, nothing to evidenceDocs, searchQueries, agentInsights.
C4_Abandoned == \A c \in Calls : lateWrites[c] = {}

\* C5: when a call returns through the catch block, the result is the
\* fallback (isVerified=false, riskLevel=HIGH, confidence=0), evidenceSources
\* counts the documents this run has retrieved, and every evidence entry is
\* made from one of them.
C5_FallbackFromOwnEvidence ==
  [][\A c \in Calls :
       (status[c] = "active" /\ status'[c] = "returned" /\ error'[c] # <<>>)
         => /\ IsFallback(result'[c])
            /\ result'[c].confidence = JNum(0)
            /\ result'[c].evidenceSources = Len(retrieved'[c])
            /\ \A i \in 1..Len(result'[c].evidence) :
                 \E j \in 1..Len(retrieved'[c]) :
                   result'[c].evidence[i] = docToArticle(retrieved'[c][j])]_vars

\* C6: the classifier yields casual only for an answer that is the CASUAL
\* label (up to case and surrounding blanks).
C6_FailClosed ==
  \A c \in Calls :
    queryType[c] = "casual"
      => /\ classification[c].kind = "text"
         /\ toUpperCase(trim(classification[c].text)) = CASUAL

blank(text) == Len(trim(text)) = 0

\* C7: each of the three endpoints answers 400, starting no pipeline, for a
\* claim that is empty, whitespace-only or longer than 1000 characters, and
\* starts its pipeline for every other claim string.
C7_ClaimValidated ==
  \A i \in 1..Len(handled) :
    LET h == handled[i] IN
      h.claim.t = "string"
        => IF blank(h.claim.s) \/ Len(h.claim.s) > MaxClaimLength
           THEN h.response.status = 400 /\ h.response.call = "none"
           ELSE h.response.call # "none"

Terminal == {"final", "error"}
TerminalEvents == {i \in 1..Len(stream.events) : stream.events[i] \in Terminal}

\* C8: the stream of a /verify-stream request holds at most one terminal
\* event and nothing after it, and it holds one once the call has returned
\* or its deadline has passed, the consumer not having disconnected during
\* the call.
C8_ExactlyOneTerminal ==
  host = "stream"
    => /\ Cardinality(TerminalEvents) <= 1
       /\ \A i \in TerminalEvents : i = Len(stream.events)
       /\ ((status[1] = "returned" \/ timeout[1] = "fired")
           /\ stream.closed # "during")
            => TerminalEvents # {}

\* C9: once the consumer has disconnected, no event is added to the stream.
C9_NoEventAfterClose ==
  [][stream.closed # "no" => stream'.events = stream.events]_vars

C9_Witness ==
  /\ stream.closed = "during"
  /\ status[1] = "returned"
  /\ Len(steps[1]) > Len(stream.events)

CasualOrder ==
  <<<<"begin", "classification">>, <<"end", "classification">>,
    <<"begin", "casual">>, <<"end", "casual">>>>

VerificationOrder ==
  <<<<"begin", "classification">>, <<"end", "classification">>,
    <<"begin", "analysis">>, <<"end", "analysis">>,
    <<"begin", "research">>, <<"end", "research">>,
    <<"begin", "retrieval">>, <<"end", "retrieval">>,
    <<"begin", "factcheck">>, <<"end", "factcheck">>,
    <<"begin", "build">>, <<"end", "build">>>>

IsPrefix(xs, ys) == Len(xs) <= Len(ys) /\ xs = SubSeq(ys, 1, Len(xs))

\* C10: the stages of a run begin and end in the fixed order, classification
\* and then either casual or analysis, research, retrieval, fact-check and
\* result building; a stage begins after the one before it has ended, and
\* none begins twice.
C10_StageOrder ==
  \A c \in Calls :
    IsPrefix(stageLog[c], CasualOrder) \/ IsPrefix(stageLog[c], VerificationOrder)

C10_Witness ==
  \E c, d \in Calls : stageLog[c] = VerificationOrder /\ stageLog[d] = CasualOrder


\* the stages of a run: the awaits a stage may be parked on, the event that
\* announces it and the events that report it over
Stages(h) ==
  IF h = "verifier"
  THEN <<[calls |-> {"v-analyze", "v-enrich", "v-brief"},
          running |-> "stage1",
          over |-> {"analyst-completed", "analyst-fallback"}],
         [calls |-> {"v-queries", "v-fetch", "v-store", "v-delay", "v-retrieve"},
          running |-> "stage2",
          over |-> {"researcher-completed", "researcher-fallback"}],
         [calls |-> {"v-factcheck"},
          running |-> "stage3",
          over |-> {"factchecker-completed", "factchecker-fallback"}],
         [calls |-> {"v-synth", "v-refine"},
          running |-> "stage4",
          over |-> {"synthesis-completed", "synthesis-fallback"}]>>
  ELSE <<[calls |-> {"analyze"}, running |-> "stage1",
          over |-> {"analyst-completed"}],
         [calls |-> {"search", "store"}, running |-> "stage2",
          over |-> {"researcher-completed"}],
         [calls |-> {"retrieve"}, running |-> "stage3", over |-> {"retrieved"}],
         [calls |-> {"factcheck"}, running |-> "stage4",
          over |-> {"factchecker-completed"}]>>

\* the place of a progress event in the stage order; 0 for the events that
\* belong to no stage
StageRank(h, message) ==
  IF \E n \in 1..4 : message = Stages(h)[n].running \/ message \in Stages(h)[n].over
  THEN CHOOSE r \in 1..8 :
         \E n \in 1..4 : \/ r = 2 * n - 1 /\ message = Stages(h)[n].running
                         \/ r = 2 * n /\ message \in Stages(h)[n].over
  ELSE 0

Reported(c, n) == \E i \in 1..Len(steps[c]) : steps[c][i] \in Stages(host)[n].over

\* C11: progress events reach the observer in stage order; the event that
\* reports stage N over is delivered when no collaborator call of stage N
\* is outstanding any more, before any call of stage N+1 is made, and never
\* after an event of a later stage
C11_EventsInStageOrder ==
  \A c \in Calls :
    /\ \A n \in 1..4 : Reported(c, n) => pc[c] \notin Stages(host)[n].calls
    /\ \A n \in 1..3 : pc[c] \in Stages(host)[n + 1].calls => Reported(c, n)
    /\ \A i, j \in 1..Len(steps[c]) :
         (i < j /\ StageRank(host, steps[c][i]) > 0 /\ StageRank(host, steps[c][j]) > 0)
           => StageRank(host, steps[c][i]) <= StageRank(host, steps[c][j])

\* the stages of the verification pipeline, none of which a casual run enters
PipelineCalls == {"analyze", "search", "store", "retrieve", "factcheck"}

\* the conversational model call of run c has settled, by an answer or by
\* an error, and the call returned what handleCasualQuery then built
CasualSettled(c) ==
  /\ queryType[c] = "casual"
  /\ status[c] = "returned"
  /\ error[c] = <<>>

StoreCalls == {"store", "d-store", "v-store"}
AfterStore == {"retrieve", "d-retrieve", "v-delay"}

\* C13: whatever storeNewsArticles answers, failure included, the run goes
\* on with the research: the step in which a run leaves its wait for the
\* store write takes it on towards the retrieval from the store, never to a
\* failed run, and leaves the call neither rejected nor returned through
\* the catch block.
C13_StoreFailureNonFatal ==
  [][\A c \in Calls :
       (pc[c] \in StoreCalls /\ pc'[c] # pc[c])
         => /\ pc'[c] \in AfterStore
            /\ status'[c] = status[c]
            /\ error'[c] = error[c]]_vars

\* the fetches of run c that have settled after the step
SettledNext(c) == {j \in 1..Len(searches'[c]) : searches'[c][j].state = "settled"}

\* C14: in the step in which one of the parallel fetches of a run settles,
\* a fetch that failed counts as an empty list, what the other fetches
\* delivered stays as it was, nothing is raised, and once every fetch has
\* settled the run is at the store write when any fetch delivered an
\* article and at the retrieval otherwise.
C14_SearchFailureIsolated ==
  [][\A c \in Calls : \A i \in 1..Len(searches[c]) :
       (pc[c] = "search" /\ searches[c][i] = Pending /\ searches'[c][i] # Pending)
         => /\ searches'[c][i].failed => searches'[c][i].articles = <<>>
            /\ \A j \in 1..Len(searches[c]) : j # i => searches'[c][j] = searches[c][j]
            /\ status'[c] = status[c] /\ error'[c] = error[c]
            /\ pc'[c] = IF SettledNext(c) # DOMAIN searches'[c] THEN "search"
                        ELSE IF \E j \in SettledNext(c) : searches'[c][j].articles # <<>>
                             THEN "store" ELSE "retrieve"]_vars

\* one fetch of a run failed, the other delivered an article, and the run
\* is at the store write
C14_Witness ==
  \E c \in Calls : \E i, j \in 1..Len(searches[c]) :
    /\ pc[c] = "store"
    /\ searches[c][i].state = "settled" /\ searches[c][i].failed
    /\ searches[c][j].state = "settled" /\ searches[c][j].articles # <<>>

\* the verification pipeline of call c ran to its end and the call returned
\* what it built, no web search having delivered an article and the
\* similarity store having delivered no document
NothingFound(c) ==
  /\ status[c] = "returned" /\ error[c] = <<>> /\ pc[c] = "done"
  /\ queryType[c] # "casual"
  /\ \A i \in 1..Len(searches[c]) : searches[c][i].articles = <<>>
  /\ retrieved[c] = <<>>

\* C15: a run that found nothing, on the web and in the store, returns a
\* result that is not verified and holds no evidence (evidenceSources = 0
\* where the result has that field), whatever the models answered. The
\* wording of the summary is left out: of the texts a model may put there
\* none can be told to state or not to state that evidence is insufficient.
C15_InsufficientEvidence ==
  \A c \in Calls :
    NothingFound(c) =>
      /\ result[c].isVerified = JBool(FALSE)
      /\ result[c].evidence = <<>>
      /\ "evidenceSources" \in DOMAIN result[c] => result[c].evidenceSources = 0

\* the calls that have returned a result
Returned == {c \in Calls : status[c] = "returned"}

\* the normalized (title, source) pair of an evidence entry
TitleAndSource(e) ==
  <<normalizeText(nullish(e.title, <<>>)), normalizeText(nullish(e.source, <<>>))>>

\* two entries of one evidence list are the same piece of evidence
Duplicates(e, f) ==
  IF falsy(e.link) /\ falsy(f.link) THEN TitleAndSource(e) = TitleAndSource(f)
  ELSE ~falsy(e.link) /\ ~falsy(f.link) /\ normalizeUrl(e.link) = normalizeUrl(f.link)

\* C16: in the evidence of every returned result no two entries have the
\* same normalized URL, and no two entries without a URL the same
\* normalized title and source.
C16_EvidenceDeduplicated ==
  \A c \in Returned :
    \A i, j \in 1..Len(result[c].evidence) :
      i < j => ~Duplicates(result[c].evidence[i], result[c].evidence[j])

\* a URL without its query string and then without its trailing slash
WithoutQueryAndSlash(u) ==
  LET path == beforeFirst(u, "?")
  IN  IF path # <<>> /\ path[Len(path)] = "/" THEN SubSeq(path, 1, Len(path) - 1)
      ELSE path

\* two URLs that differ only by a trailing slash and an appended query string
SlashQueryVariants(u, v) ==
  /\ ~falsy(u) /\ ~falsy(v)
  /\ WithoutQueryAndSlash(u) = WithoutQueryAndSlash(v)

\* C17: of the documents a curating entry point (the orchestrator, the
\* verifier) retrieved, two whose URLs differ only by a trailing slash and
\* an appended query string have the same normalizeUrl key, and the
\* evidence of the returned result holds at most one entry for them.
C17_SlashQueryOneKey ==
  \A c \in Returned :
    host # "verify-claim" =>
      /\ \A d, e \in Range(retrieved[c]) :
           SlashQueryVariants(extractLink(d), extractLink(e))
             => normalizeUrl(extractLink(d)) = normalizeUrl(extractLink(e))
      /\ \A i, j \in 1..Len(result[c].evidence) :
           i < j => ~SlashQueryVariants(result[c].evidence[i].link,
                                        result[c].evidence[j].link)

\* a link that is present and begins with http:// or https://
AbsoluteLink(link) ==
  ~falsy(link) /\ (startsWith(link, HTTP) \/ startsWith(link, HTTPS))

\* C18: every entry of the evidence of a returned result has a link that is
\* present and begins with http:// or https://.
C18_EvidenceLinksValid ==
  \A c \in Returned :
    \A i \in 1..Len(result[c].evidence) : AbsoluteLink(result[c].evidence[i].link)

\* C19: the evidence of a returned result has at most eight entries.
C19_EvidenceAtMostEight ==
  \A c \in Returned : Len(result[c].evidence) <= 8

RiskLevels == {JStr(<<"LOW">>), JStr(<<"MEDIUM">>), JStr(<<"HIGH">>)}

\* C20: in every returned result confidence is a number from 0 to 100 and
\* riskLevel is LOW, MEDIUM or HIGH, whatever the model's answer held.
C20_ConfidenceAndRiskInRange ==
  \A c \in Returned :
    /\ result[c].confidence.t = "number"
    /\ result[c].confidence.n \in 0..100
    /\ result[c].riskLevel \in RiskLevels

\* the fact checker's output that the result of call c carries in
\* agentInsights.factChecker
FactCheckerInsight(c) ==
  IF "value" \in DOMAIN result[c].agentInsights
  THEN result[c].agentInsights.value.factChecker
  ELSE insightsObjects[result[c].agentInsights.ref].factChecker

\* call c returned the result its last stage built from a model's answer:
\* synthesizeResults in the verifier, runVerification in the orchestrator
Synthesized(c) ==
  /\ host # "verify-claim"
  /\ status[c] = "returned" /\ error[c] = <<>> /\ pc[c] = "done"
  /\ \E i \in 1..Len(steps[c]) :
       steps[c][i] = IF host = "verifier" THEN "synthesis-completed"
                     ELSE "factchecker-completed"

ConfidenceIn(r, range) == r.confidence.t = "number" /\ r.confidence.n \in range

\* C21: a synthesized result agrees with the fact checker's verdict:
\* SUPPORTED goes with isVerified = true and a confidence from 70 to 95,
\* REFUTED with isVerified = false and a confidence from 70 to 95,
\* INCONCLUSIVE with isVerified = false and a confidence of at most 60 (the
\* orchestrator has one verdict text for the last two).
C21_VerdictMapping ==
  \A c \in Calls :
    Synthesized(c) =>
      LET r == result[c]
          verdict == FactCheckerInsight(c)
          supported == r.isVerified = JBool(TRUE) /\ ConfidenceIn(r, 70..95)
          refuted == r.isVerified = JBool(FALSE) /\ ConfidenceIn(r, 70..95)
          inconclusive == r.isVerified = JBool(FALSE) /\ ConfidenceIn(r, 0..60)
      IN  /\ verdict \in {<<"VERDICT: SUPPORTED">>, <<"Verdict: SUPPORTED">>}
               => supported
          /\ verdict = <<"VERDICT: REFUTED">> => refuted
          /\ verdict = <<"VERDICT: INCONCLUSIVE">> => inconclusive
          /\ verdict = <<"Verdict: REFUTED/INCONCLUSIVE">> => refuted \/ inconclusive

\* the synthesis model call of the verifier, or the extraction of JSON from
\* its answer, failed: the catch block of synthesizeResults has run
SynthesisFailed ==
  /\ host = "verifier" /\ status[1] = "returned"
  /\ \E i \in 1..Len(steps[1]) : steps[1][i] = "synthesis-fallback"

\* C22: when the synthesis model call or the JSON extraction fails, the
\* verifier returns isVerified = false, confidence 50, riskLevel MEDIUM and
\* the fixed caution summary, with the search queries and the number of
\* documents of the evidence context.
C22_SynthesisFallback ==
  SynthesisFailed =>
    /\ result[1].isVerified = JBool(FALSE)
    /\ result[1].confidence = JNum(50)
    /\ result[1].riskLevel = JStr(<<"MEDIUM">>)
    /\ result[1].factCheckSummary =
         JStr(<<"Evidence is inconclusive at this time. The claim should be treated as unverified and handled with caution.">>)
    /\ result[1].searchQueries = searchQueries
    /\ result[1].evidenceSources = Len(evidenceDocs)

\* the fallback was returned on an evidence context with queries and
\* documents
C22_Witness ==
  /\ SynthesisFailed
  /\ searchQueries # <<>> /\ evidenceDocs # <<>>
  /\ result[1].evidenceSources > 0

\* the model call of the fact checker failed: runFactChecker of the verifier
\* ran its catch block, verifyClaimWithEvidence of the detector ran its own
FactCheckFailed(c) ==
  \/ /\ host = "verifier"
     /\ \E i \in 1..Len(steps[c]) : steps[c][i] = "factchecker-fallback"
  \/ /\ host # "verifier"
     /\ pc[c] = "done" /\ error[c] = <<>>
     /\ result[c].analysis = verificationFallback.analysis

\* C23: when the fact-check model call fails the verdict is INCONCLUSIVE,
\* the run goes on to build its result, and the result the call returns
\* does not have isVerified = true.
C23_FactCheckFailureInconclusive ==
  \A c \in Calls :
    FactCheckFailed(c) =>
      /\ host = "verifier" =>
           /\ insightsObjects[c].factChecker = <<"VERDICT: INCONCLUSIVE">>
           /\ pc[c] \in {"v-synth", "v-refine", "done"}
      /\ status[c] = "returned" => result[c].isVerified # JBool(TRUE)

\* ------------------------------------------------------------------------
\* detector.analyzeClaim on the text of the model's answers
\* ------------------------------------------------------------------------

\* s.indexOf(p, from - 1) + 1: where p first occurs in s at or after
\* position from, 0 when it does not
indexOf(s, p, from) ==
  LET at(i) == SubSeq(s, i, i + Len(p) - 1) = p
      places == from..(Len(s) - Len(p) + 1)
  IN  IF \E i \in places : at(i)
      THEN CHOOSE i \in places : at(i) /\ \A j \in places : at(j) => i <= j
      ELSE 0

\* The texts JSON.parse accepts, without the white space between their
\* tokens, and the values it gives for them: what reading extractedClaims,
\* keywords and context of the value yields, and the value's own text.  A
\* line break inside a string literal is not JSON.
JsonValues ==
  LET value(text, extractedClaims, keywords, context) ==
        [json |-> text, extractedClaims |-> extractedClaims,
         keywords |-> keywords, context |-> context]
  IN  {value(<<"{", "}">>, JUndef, JUndef, JUndef),
       value(<<"7">>, JUndef, JUndef, JUndef),
       value(<<"{", "\"", "c", "o", "n", "t", "e", "x", "t", "\"", ":",
               "\"", "w", "\"", "}">>,
             JUndef, JUndef, JStr(<<"w">>)),
       value(<<"{", "\"", "c", "o", "n", "t", "e", "x", "t", "\"", ":",
               "\"", "a", " ", "b", "\"", "}">>,
             JUndef, JUndef, JStr(<<"a", " ", "b">>)),
       value(<<"{", "\"", "k", "e", "y", "w", "o", "r", "d", "s", "\"",
               ":", "[", "\"", "k", "\"", "]", "}">>,
             JUndef, JArr(<< <<"k">> >>), JUndef)}

\* JSON.parse(text): the value, or NoJson where it throws
JsonParse(text) ==
  LET RECURSIVE compact(_, _)
      \* text without the white space outside its string literals
      compact(s, inString) ==
        IF s = <<>> THEN <<>>
        ELSE IF Head(s) = "\"" THEN <<Head(s)>> \o compact(Tail(s), ~inString)
        ELSE IF ~inString /\ Head(s) \in WhiteSpace THEN compact(Tail(s), inString)
        ELSE <<Head(s)>> \o compact(Tail(s), inString)
      tokens == compact(text, FALSE)
  IN  IF \E v \in JsonValues : v.json = tokens
      THEN CHOOSE v \in JsonValues : v.json = tokens
      ELSE NoJson

\* jsonMatch[1].trim() of the match of the fence pattern: what stands
\* between the first three backquotes, with an optional json tag, and the
\* next three, trimmed; NoVal when there is no match
fencedBlock(response) ==
  LET \* the backquote is one character, written out as a word here
      fence == <<"backquote", "backquote", "backquote">>
      open == indexOf(response, fence, 1)
      close == indexOf(response, fence, open + 3)
  IN  IF open = 0 \/ close = 0 THEN NoVal
      ELSE trim(dropPrefix(SubSeq(response, open + 3, close - 1),
                           <<"j", "s", "o", "n">>))

\* the candidate of the last tier: from the first '{' to the last '}', line
\* breaks replaced by a blank and the commas before a closing brace or
\* bracket removed; NoVal when there is no such stretch
braceCandidate(response) ==
  LET lastIndexOf(s, p) ==
        LET at(i) == SubSeq(s, i, i + Len(p) - 1) = p
            places == 1..(Len(s) - Len(p) + 1)
        IN  IF \E i \in places : at(i)
            THEN CHOOSE i \in places : at(i) /\ \A j \in places : at(j) => i >= j
            ELSE 0
  IN
    LET jsonStart == indexOf(response, <<"{">>, 1)
        jsonEnd == lastIndexOf(response, <<"}">>)
        RECURSIVE replaceNewlines(_)
        \* .replace(/[\n\r]+/g, ' ')
        replaceNewlines(s) ==
          IF s = <<>> THEN <<>>
          ELSE IF Head(s) # "\n" THEN <<Head(s)>> \o replaceNewlines(Tail(s))
          ELSE IF Len(s) > 1 /\ s[2] = "\n" THEN replaceNewlines(Tail(s))
          ELSE <<" ">> \o replaceNewlines(Tail(s))
        RECURSIVE afterSpace(_, _)
        afterSpace(s, i) ==
          IF i <= Len(s) /\ s[i] \in WhiteSpace THEN afterSpace(s, i + 1) ELSE i
        RECURSIVE stripComma(_, _)
        \* .replace(/,\s*}/g, '}') and .replace(/,\s*]/g, ']')
        stripComma(s, closing) ==
          IF s = <<>> THEN <<>>
          ELSE IF Head(s) = "," /\ afterSpace(s, 2) <= Len(s)
                  /\ s[afterSpace(s, 2)] = closing
          THEN <<closing>> \o stripComma(SubSeq(s, afterSpace(s, 2) + 1, Len(s)),
                                         closing)
          ELSE <<Head(s)>> \o stripComma(Tail(s), closing)
    IN  IF jsonStart # 0 /\ jsonEnd > jsonStart
        THEN stripComma(stripComma(replaceNewlines(SubSeq(response, jsonStart,
                                                          jsonEnd)), "}"), "]")
        ELSE NoVal

\* extractJsonFromResponse with the brace stretch tried before the fenced
\* block
extractJsonFromResponseBraceFirst(response) ==
  LET parsed(candidate) ==
        IF candidate = NoVal THEN NoJson ELSE JsonParse(candidate)
  IN  IF JsonParse(response) # NoJson THEN JsonParse(response)
      ELSE IF parsed(braceCandidate(response)) # NoJson
      THEN parsed(braceCandidate(response))
      ELSE IF parsed(fencedBlock(response)) # NoJson
      THEN parsed(fencedBlock(response))
      ELSE NoJson

\* MisinformationDetector.extractJsonFromResponse: the value it returns, or
\* NoJson where it throws 'Invalid JSON in model response'
extractJsonFromResponse(response) ==
  LET parsed(candidate) ==
        IF candidate = NoVal THEN NoJson ELSE JsonParse(candidate)
  IN  IF JsonParse(response) # NoJson THEN JsonParse(response)
      ELSE IF parsed(fencedBlock(response)) # NoJson
      THEN parsed(fencedBlock(response))
      ELSE IF parsed(braceCandidate(response)) # NoJson
      THEN parsed(braceCandidate(response))
      ELSE NoJson

\* result.response.text() as safeGenerate and extractJsonFromResponse see it
ModelText(text) ==
  [kind |-> "text", text |-> text, brace |-> includes(text, <<"{">>),
   json |-> extractJsonFromResponse(text)]

\* what the model may answer to the analysis prompt: seven bodies, each
\* alone, between white space, in a fence with and without the json tag,
\* inside prose, in a fence followed by braces, after a fence of other
\* text, between a closing and an opening brace, and after an opening
\* brace; the empty text; a failed call
ModelAnswers ==
  LET bodies ==
        {<<"{", "}">>,
         <<"7">>,
         <<"{", "\"", "c", "o", "n", "t", "e", "x", "t", "\"", ":", "\"",
           "w", "\"", "}">>,
         <<"{", "\"", "c", "o", "n", "t", "e", "x", "t", "\"", ":", "\"",
           "w", "\"", ",", " ", "}">>,
         <<"{", "\"", "c", "o", "n", "t", "e", "x", "t", "\"", ":", "\"",
           "a", "\n", "b", "\"", "}">>,
         <<"{", "\"", "k", "e", "y", "w", "o", "r", "d", "s", "\"", ":",
           "[", "\"", "k", "\"", ",", "]", "}">>,
         <<"{", "x", "}">>}
      fence == <<"backquote", "backquote", "backquote">>
      wrapped(b) ==
        {b,
         <<"\n">> \o b \o <<" ">>,
         fence \o <<"j", "s", "o", "n", "\n">> \o b \o <<"\n">> \o fence,
         <<"H", "e", "r", "e", ":", " ">> \o fence \o b \o fence \o <<" ", "d", "o", "n", "e">>,
         <<"o", "k", " ">> \o b \o <<" ", ".">>,
         fence \o b \o fence \o <<" ", "{", "}">>,
         fence \o <<" ", "x", " ">> \o fence \o <<" ">> \o b,
         <<"}", " ">> \o b \o <<" ", "{">>,
         <<"{", " ">> \o b}
  IN  {Throws, ModelText(<<>>)}
        \cup {ModelText(text) : text \in UNION {wrapped(b) : b \in bodies}}

\* detector.analyzeClaim(claim) is called; getGenerativeModel is read off
\* this.genAI before the try block
AnalyzeClaim ==
  /\ genAI
  /\ analyzing.claim = NoVal
  /\ \E text \in ({Texts.rainFell, <<"r", "a", "i", "n", " ", "f", "e", "l", "l", " ", "o",
        "n", " ", "m", "a", "n", "y", " ", "t", "o", "w", "n", "s", " ", "a", "f", "t", "e"
        , "r", " ", "l", "o", "n", "g", " ", "d", "r", "y", " ", "w", "e", "e", "k",
        "s">>}) : analyzing' = [analyzing EXCEPT !.claim = text]
  /\ UNCHANGED <<pipelineVars, handled, scoring, watching>>

\* model.generateContent settles inside safeGenerate: the loop goes round,
\* or analyzeClaim goes on to extractJsonFromResponse and returns
GenerateContent ==
  /\ analyzing.claim # NoVal
  /\ analyzing.returned = None
  /\ \E answer \in ModelAnswers :
       LET called == [analyzing EXCEPT !.generated = Append(@, answer)]
           next(outcome) ==
             CASE outcome = "retry" -> called
               [] outcome = "error" ->
                    [called EXCEPT
                       !.thrown = IF validAnswer(answer)
                                  THEN <<"Invalid JSON in model response">>
                                  ELSE <<"Model failed to return valid response after retries.">>,
                       !.returned = analysisFallback(analyzing.claim)]
               [] outcome = "json" ->
                    [called EXCEPT
                       !.parsed = answer.json,
                       !.returned = analysisParsed(analyzing.claim, answer.json)]
       IN  analyzing' = next(generateOutcome(answer, Len(analyzing.generated)))
  /\ UNCHANGED <<pipelineVars, handled, scoring, watching>>

SpecAnalyze == InitOf("verify-claim") /\ [][AnalyzeClaim \/ GenerateContent]_vars

\* the three tiers of extractJsonFromResponse on a response, in order: what
\* JSON.parse gives for the whole text, for the first fenced block and for
\* the stretch from the first opening to the last closing brace
TierValues(text) ==
  LET parsed(candidate) ==
        IF candidate = NoVal THEN NoJson ELSE JsonParse(candidate)
  IN  <<JsonParse(text), parsed(fencedBlock(text)), parsed(braceCandidate(text))>>

\* analyzeClaim has returned after safeGenerate gave it a response
Extracted ==
  /\ analyzing.returned # None
  /\ analyzing.generated[Len(analyzing.generated)].kind = "text"
  /\ includes(analyzing.generated[Len(analyzing.generated)].text, <<"{">>)

\* C24: extractJsonFromResponse tries the direct parse, the first fenced
\* block and the brace stretch in this order and analyzeClaim works on the
\* value of the first of them that parses; it throws only when all three
\* fail, and analyzeClaim then returns the heuristic analysis: the claim as
\* the only sub-claim, at most five keywords each longer than three
\* characters, and the generic context.
C24_ThreeTiersInOrder ==
  Extracted =>
    LET text == analyzing.generated[Len(analyzing.generated)].text
        parsing == {i \in 1..3 : TierValues(text)[i] # NoJson}
        first == CHOOSE i \in parsing : \A j \in parsing : i <= j
        keywords == analyzing.returned.keywords
    IN  /\ parsing # {} =>
             /\ analyzing.thrown = <<>>
             /\ analyzing.parsed = TierValues(text)[first]
             /\ analyzing.returned =
                  analysisParsed(analyzing.claim, TierValues(text)[first])
        /\ parsing = {} =>
             /\ analyzing.thrown = <<"Invalid JSON in model response">>
             /\ analyzing.parsed = None
             /\ analyzing.returned.extractedClaims = JArr(<<analyzing.claim>>)
             /\ keywords.t = "array"
             /\ Len(keywords.a) <= 5
             /\ \A k \in 1..Len(keywords.a) : Len(keywords.a[k]) > 3
             /\ analyzing.returned.context = JStr(<<"General claim verification">>)

\* a response with a fenced block and braces, none of which parses, for a
\* claim of more than five long words: the heuristic analysis with five
\* keywords came back
C24_Witness ==
  /\ Extracted
  /\ LET text == analyzing.generated[Len(analyzing.generated)].text
     IN  /\ TierValues(text) = <<NoJson, NoJson, NoJson>>
         /\ fencedBlock(text) # NoVal
         /\ braceCandidate(text) # NoVal
  /\ Len(longWords(analyzing.claim)) > 5
  /\ Len(analyzing.returned.keywords.a) = 5

\* text && text.includes('{')
ValidResponse(answer) ==
  answer.kind = "text" /\ answer.text # <<>> /\ includes(answer.text, <<"{">>)

\* C28: safeGenerate calls the model at most Retries + 1 = 3 times; it makes
\* a further call only after answers that threw or held no opening brace,
\* returns on the first answer that is non-empty and holds one, and after a
\* third failed answer throws the retry-exhausted error.
C28_SafeGenerateBounded ==
  LET g == analyzing.generated
      n == Len(analyzing.generated)
      exhausted == <<"Model failed to return valid response after retries.">>
  IN  /\ n <= Retries + 1
      /\ \A i \in 1..(n - 1) : ~ValidResponse(g[i])
      /\ (n > 0 /\ ValidResponse(g[n])) =>
           analyzing.returned # None /\ analyzing.thrown # exhausted
      /\ (n = Retries + 1 /\ ~ValidResponse(g[n])) =>
           analyzing.returned # None /\ analyzing.thrown = exhausted
      /\ analyzing.thrown = exhausted =>
           n = Retries + 1 /\ \A i \in 1..n : ~ValidResponse(g[i])
      /\ (n < Retries + 1 /\ (n = 0 \/ ~ValidResponse(g[n]))) =>
           analyzing.returned = None /\ analyzing.thrown = <<>>

\* three answers, one a failed call and one a text without a brace, and
\* the retry-exhausted error
C28_Witness ==
  /\ Len(analyzing.generated) = 3
  /\ analyzing.generated[1].kind = "throw"
  /\ analyzing.generated[2].kind = "text"
  /\ analyzing.generated[2].text # <<>>
  /\ analyzing.thrown = <<"Model failed to return valid response after retries.">>

\* ------------------------------------------------------------------------
\* The curation step of runEvidenceResearcher on two documents
\* ------------------------------------------------------------------------

\* findRelevantEvidence gives two documents of one text, and
\* runEvidenceResearcher sorts them by recency, scores them against the
\* keywords of the claim and curates them.  The dates: the epoch, years
\* before and after the clock's, the days on both sides of every step of
\* computeRecencyWeight, no date, and a text that is no date.
CurateKbDocs ==
  /\ scoring.docs = <<>>
  /\ LET dates ==
           {NoVal, <<"s", "o", "o", "n">>,
         <<"1", "9", "7", "0">>,
         <<"1", "9", "8", "0">>,
         <<"2", "0", "2", "4", "-", "1", "2", "-", "0", "1">>,
         <<"2", "0", "2", "4", "-", "1", "2", "-", "0", "2">>,
         <<"2", "0", "2", "4", "-", "1", "2", "-", "1", "7">>,
         <<"2", "0", "2", "4", "-", "1", "2", "-", "1", "8">>,
         <<"2", "0", "2", "4", "-", "1", "2", "-", "2", "4">>,
         <<"2", "0", "2", "4", "-", "1", "2", "-", "2", "5">>,
         <<"2", "0", "2", "4", "-", "1", "2", "-", "2", "8">>,
         <<"2", "0", "2", "4", "-", "1", "2", "-", "2", "9">>,
         <<"2", "0", "2", "4", "-", "1", "2", "-", "3", "0">>,
         <<"2", "0", "2", "4", "-", "1", "2", "-", "3", "1">>,
         <<"2", "0", "2", "5">>,
         <<"2", "0", "2", "6">>}
         doc(n, text, date) ==
           [Doc(text, <<"n">>, HTTPS \o <<"x", "/", n>>, NoVal, date, NoVal)
              EXCEPT !.pageContent = text]
         keywords == extractClaimKeywords(Texts.rainFell)
     IN  \E first, second \in dates, text \in {Texts.rain, Texts.maybe} :
           LET kbDocsRaw == <<doc("1", text, first), doc("2", text, second)>>
           IN  scoring' =
                 [docs |-> kbDocsRaw,
                  keywords |-> keywords,
                  curatedKbDocs |->
                    curatedKbDocs(
                      sortDesc(kbDocsRaw,
                               [d \in Range(kbDocsRaw) |-> docRecency(d)]),
                      keywords)]
  /\ UNCHANGED <<pipelineVars, handled, analyzing, watching>>

SpecScore == InitOf("verifier") /\ [][CurateKbDocs]_vars

\* a document's date is one Date.parse accepts
Parseable(doc) == doc.date # NoVal /\ ~DateParse(doc.date).nan

\* a document's age in days
DaysOld(doc) == Now - DateParse(doc.date).ms

\* the place of a document in a list, 0 when it is not there
PlaceIn(list, doc) ==
  IF \E i \in 1..Len(list) : list[i] = doc
  THEN CHOOSE i \in 1..Len(list) : list[i] = doc
  ELSE 0

\* C25: for a document with a parseable date the recency weight is 1.0 up to
\* one day of age, 0.9 up to 3, 0.75 up to 7, 0.6 up to 14, 0.45 up to 30 and
\* 0.25 beyond; so of two documents of equal keyword coverage the strictly
\* older one has no higher combined score and stands no earlier in the
\* curated list than the strictly newer one.
C25_RecencyWeightMonotone ==
  LET StepWeight(daysOld) ==
        IF daysOld <= 1 THEN 100
        ELSE IF daysOld <= 3 THEN 90
        ELSE IF daysOld <= 7 THEN 75
        ELSE IF daysOld <= 14 THEN 60
        ELSE IF daysOld <= 30 THEN 45
        ELSE 25
      score(doc) == scoreDocument(doc, scoring.keywords).value
      place(doc) == PlaceIn(scoring.curatedKbDocs, doc)
  IN  \A older, newer \in Range(scoring.docs) :
        (Parseable(older) /\ Parseable(newer)) =>
          /\ computeRecencyWeight(older.date) = StepWeight(DaysOld(older))
          /\ DaysOld(older) > DaysOld(newer) =>
               /\ computeRecencyWeight(older.date) <= computeRecencyWeight(newer.date)
               /\ score(older) <= score(newer)
               /\ place(older) # 0 =>
                    (place(newer) # 0 /\ place(newer) < place(older))

\* a NewsArticle read as a Document: it has neither metadata nor pageContent
AsDocument(article) ==
  [title |-> NoVal, source |-> NoVal, link |-> NoVal, url |-> NoVal,
   href |-> NoVal, date |-> NoVal, published_at |-> NoVal,
   pageContent |-> NoVal]

\* the curation step of the host
Curation(docs) ==
  IF host = "verifier" THEN mapEvidence(docs) ELSE mapEvidenceToNewsArticles(docs)

\* C26: the curation step (deduplicate, sort, keep valid links, cap) run on
\* the evidence list of a returned result, which is its own output, returns
\* that list again: the same entries, field values and order.
C26_CurationIdempotent ==
  \A c \in Returned :
    host # "verify-claim" =>
      Curation([i \in 1..Len(result[c].evidence) |->
                  AsDocument(result[c].evidence[i])]) = result[c].evidence

\* the documents of evidence.kbDocs behind an entry of the evidence list
Behind(entry) == {d \in Range(evidenceDocs) : mapEvidence(<<d>>) = <<entry>>}

\* C27: the evidence list of the verifier's result is in descending order of
\* the combined score of scoreDocument: of two surfaced documents the one
\* with the higher score stands first.
C27_EvidenceByScore ==
  (host = "verifier" /\ 1 \in Returned) =>
    LET score(d) == scoreDocument(d, extractClaimKeywords(claim[1])).value
    IN  \A i, j \in 1..Len(result[1].evidence) :
          i < j =>
            \A d \in Behind(result[1].evidence[i]), e \in Behind(result[1].evidence[j]) :
              score(d) >= score(e)

\* a call of AgentOrchestrator.verifyClaimAgentic is in progress
InProgress == {c \in Calls : status[c] = "active"}

\* C29: on an orchestrator isRunning is true exactly while an accepted call
\* of verifyClaimAgentic has not returned, whichever way the call ends, and
\* a call made while none is in progress is accepted.
C29_GuardHeldWhileRunning ==
  /\ [](host \in {"watcher", "stream"} => (isRunning <=> InProgress # {}))
  /\ [][\A c \in Calls :
          (host \in {"watcher", "stream"} /\ status[c] = "idle" /\ status'[c] # "idle")
            => (status'[c] = "rejected" <=> InProgress # {})]_vars

\* the first call ended on the deadline and the second call on the same
\* orchestrator was accepted
C29_Witness ==
  /\ host = "watcher"
  /\ status[1] = "returned"
  /\ error[1] = <<"Verification timeout">>
  /\ status[2] = "active"
  /\ isRunning

\* ------------------------------------------------------------------------
\* RumorWatcher.processArticle
\*
\* watching.calls are the calls of processArticle on one watcher, in the
\* order they were made, each with its position (parked on
\* extractClaimsFromArticle, on verifyClaim or on the pause after a
\* verification, or returned), its claims, the number of claims it is done
\* with and the number of verifications it has pushed.
\* watching.collaborators are the calls made to extractClaimsFromArticle and
\* to verifyClaim and the calls of clearProcessedCache, in order.  The
\* orchestrator behind verifyClaim is left out: its call succeeds or throws.
\* ------------------------------------------------------------------------

\* processArticle(article) is called: it returns at once for a link in
\* processedUrls, else it calls extractClaimsFromArticle
ProcessArticle ==
  /\ Len(watching.calls) < MaxCalls
  /\ LET article(title, link) == [title |-> title, link |-> link]
         articles == {article(Repeat("t", 21), Texts.linkP),
                      article(<<"t">>, Texts.linkFtp)}
         call(a, at, skipped) ==
           [article |-> a, pc |-> at, skipped |-> skipped,
            extractedClaims |-> <<>>, done |-> 0, verifications |-> 0]
     IN  \E a \in articles :
           watching' =
             IF a.link \in watching.processedUrls
             THEN [watching EXCEPT !.calls = Append(@, call(a, "returned", TRUE))]
             ELSE [watching EXCEPT
                     !.calls = Append(@, call(a, "extract", FALSE)),
                     !.collaborators =
                        Append(@, [fn |-> "extractClaimsFromArticle",
                                   by |-> Len(watching.calls) + 1,
                                   link |-> a.link, claim |-> NoVal])]
  /\ UNCHANGED <<pipelineVars, handled, analyzing, scoring>>

\* an await of processArticle settles: the detector's
\* extractClaimsFromArticle, whose error the watcher's wrapper turns into
\* the title if that is longer than 20 characters; verifyClaim, whose error
\* the loop swallows; or the pause after a verification
ProcessArticleAnswer ==
  \E k \in 1..Len(watching.calls) :
    LET call == watching.calls[k]
        \* the head of the loop over the claims, and what follows the loop
        loop(c) ==
          IF c.done < Len(c.extractedClaims)
          THEN [watching EXCEPT
                  !.calls[k] = [c EXCEPT !.pc = "verify"],
                  !.collaborators =
                     Append(@, [fn |-> "verifyClaim", by |-> k,
                                link |-> c.article.link,
                                claim |-> c.extractedClaims[c.done + 1]])]
          ELSE [watching EXCEPT
                  !.calls[k] = [c EXCEPT !.pc = "returned"],
                  !.processedUrls = @ \cup {c.article.link}]
        claims(answer) ==
          IF answer.kind # "throw" THEN answer.claims
          ELSE IF Len(call.article.title) > 20 THEN <<call.article.title>>
          ELSE <<>>
    IN  /\ call.pc \in {"extract", "verify", "delay"}
        /\ \E answer \in
                (CASE call.pc = "extract" ->
                        {Throws, [kind |-> "claims", claims |-> <<>>],
                         [kind |-> "claims", claims |-> <<Texts.rainFell>>],
                         [kind |-> "claims",
                          claims |-> <<Texts.rainFell, Texts.flood>>]}
                   [] call.pc = "verify" -> {Throws, [kind |-> "ok"]}
                   [] call.pc = "delay" -> {[kind |-> "ok"]}) :
             watching' =
               CASE call.pc = "extract" ->
                      loop([call EXCEPT !.extractedClaims = claims(answer)])
                 [] call.pc = "verify" ->
                      IF answer.kind = "throw"
                      THEN loop([call EXCEPT !.done = @ + 1])
                      ELSE [watching EXCEPT
                              !.calls[k] = [call EXCEPT !.verifications = @ + 1,
                                                        !.pc = "delay"]]
                 [] call.pc = "delay" -> loop([call EXCEPT !.done = @ + 1])
        /\ UNCHANGED <<pipelineVars, handled, analyzing, scoring>>

\* clearProcessedCache() on a watcher that has processed something
ClearProcessedCache ==
  /\ watching.processedUrls # {}
  /\ watching' =
       [watching EXCEPT
          !.processedUrls = {},
          !.collaborators = Append(@, [fn |-> "clearProcessedCache", by |-> 0,
                                       link |-> NoVal, claim |-> NoVal])]
  /\ UNCHANGED <<pipelineVars, handled, analyzing, scoring>>

SpecWatch ==
  InitOf("watcher")
    /\ [][ProcessArticle \/ ProcessArticleAnswer \/ ClearProcessedCache]_vars

\* C30: between two calls of clearProcessedCache a watcher calls claim
\* extraction at most once per article link and verification at most once
\* per claim of a link, however its processArticle calls interleave; and a
\* call for a link that is already processed returns no claims and no
\* verifications and calls no collaborator.
C30_ArticleProcessedOnce ==
  LET log == watching.collaborators
      cleared(i, j) ==
        \E n \in (i + 1)..(j - 1) : log[n].fn = "clearProcessedCache"
  IN  /\ \A i, j \in 1..Len(log) :
           (/\ i < j
            /\ log[i].fn \in {"extractClaimsFromArticle", "verifyClaim"}
            /\ log[j].fn = log[i].fn
            /\ log[j].link = log[i].link
            /\ log[j].claim = log[i].claim) => cleared(i, j)
      /\ \A k \in 1..Len(watching.calls) :
           watching.calls[k].skipped =>
             /\ watching.calls[k].pc = "returned"
             /\ watching.calls[k].extractedClaims = <<>>
             /\ watching.calls[k].verifications = 0
             /\ \A i \in 1..Len(log) : log[i].by # k

====
